---- MODULE Spec2Model ----
(***************************************************************************)
(* IP-Analyzer: the enrichment cache (api_clients.get_ip_info), the        *)
(* extraction post-processing (api_clients.extract_ip_data_with_gemini),   *)
(* the timestamp normaliser (processing.parse_and_convert_timezone), the   *)
(* run orchestrator (processing.process_ip_analysis) and the report        *)
(* flattening (file_io._prepare_export_data).                              *)
(*                                                                         *)
(* Conventions.  A string the code inspects character by character (an IP  *)
(* address, the provider's org field) is a sequence of one-character       *)
(* strings.  A string the code only copies, compares or concatenates (an   *)
(* error tag, a step label) is a TLA+ string.  A timestamp string is a     *)
(* sequence of lexical tokens (date, time, offset, whitespace, word).      *)
(* Python's None is the string None.  A dict object lives in heap; its     *)
(* identity is its index there.  The accents of the code's literals are    *)
(* dropped ("IP Invalida (Formato)").                                      *)
(***************************************************************************)
EXTENDS Integers, Sequences, FiniteSets, TLC

VARIABLES
    pytz,                   \* processing.pytz is a module (TRUE) or None (FALSE)
    heap,                   \* the dict objects created by get_ip_info, by identity
    ip_info_cache,          \* cache: IP string -> identity of the cached record
    token_missing_logged,   \* api_clients._token_ipinfo_missing_logged
    critical_logs,          \* number of "token not configured" CRITICAL log lines
    calls,                  \* history of get_ip_info calls: ip, token, returned identity, request issued
    pc,                     \* position of process_ip_analysis
    gemini_key, ipinfo_token, file_exists, target_timezone,   \* the run's arguments
    text_content,           \* what read_input_file returned
    response,               \* what the extraction service answered
    extracted_data,         \* what extract_ip_data_with_gemini returned
    idx,                    \* loop index of the per-candidate loop (0-based, as in the code)
    ip_info,                \* identity of the record get_ip_info returned in this iteration
    processed_results,      \* the result records built so far
    results_final,          \* None or the finished list
    pending,                \* how the try block was left: a return value on its way, or an exception
    progress,               \* the progress events put on the sink, oldest first
    ops,                    \* external operations performed, oldest first
    handler_attached,       \* the caller's log handler is in logger.handlers
    ret,                    \* what process_ip_analysis returned (or that it raised)
    front,                  \* which front end called, and what it made of the returned value
    export_list,            \* what _prepare_export_data returned
    tz_calls,               \* history of direct parse_and_convert_timezone calls: arguments and result
    gui                     \* the desktop front end: flag, timer queue, progress queue, bar, worker threads

vars == <<pytz, heap, ip_info_cache, token_missing_logged, critical_logs, calls,
          pc, gemini_key, ipinfo_token, file_exists, target_timezone, text_content,
          response, extracted_data, idx, ip_info, processed_results, results_final,
          pending, progress, ops, handler_attached, ret, front, export_list, tz_calls, gui>>

lookup_vars == <<heap, ip_info_cache, token_missing_logged, critical_logs, calls>>

run_vars == <<pc, gemini_key, ipinfo_token, file_exists, target_timezone, text_content,
              response, extracted_data, idx, ip_info, processed_results, results_final,
              pending, progress, ops, handler_attached, ret, front, export_list>>

None == "None"

\* ip_analyzer_gui.py 157-167: the desktop front end after construction
GuiAtConstruction ==
    [is_processing |-> FALSE,       \* self.is_processing
     timers |-> <<>>,               \* callbacks scheduled with after(), oldest first
     progress_queue |-> <<>>,       \* self.progress_queue
     progress_bar |-> 0,            \* self.progress_bar['value']
     workers |-> <<>>,              \* the threads started, by run: how the call ends, what is left to report, whether it runs
     main_pc |-> "mainloop",        \* the main thread: in the loop, or inside _check_progress_queue
     requests |-> 0,                \* presses of the button so far
     drained |-> <<>>,              \* the messages the poll under way dequeued
     stopped_with |-> -1,           \* messages on the queue when a poller last stopped (-1: none stopped)
     stale |-> FALSE]               \* a poll dequeued a message of a run older than the latest one

(***************************************************************************)
(* Bounds of the model.                                                    *)
(***************************************************************************)
MaxItems == 2     \* longest JSON array the extraction service returns
MaxCalls == 2     \* longest sequence of direct get_ip_info calls
MaxNormalizations == 1    \* longest sequence of direct parse_and_convert_timezone calls
MaxTotal == 70    \* longest candidate list of the progress loop (SpecProgress)

(***************************************************************************)
(* Python string helpers.                                                  *)
(***************************************************************************)
IsSpace(c) == c \in {" ", "\t", "\n"}

RECURSIVE LStrip(_)
LStrip(s) ==
    IF s # <<>> /\ IsSpace(Head(s)) THEN LStrip(Tail(s)) ELSE s

RECURSIVE RStrip(_)
RStrip(s) ==
    IF s # <<>> /\ IsSpace(s[Len(s)]) THEN RStrip(SubSeq(s, 1, Len(s) - 1)) ELSE s

\* str.strip()
Strip(s) == RStrip(LStrip(s))

\* str.replace(a, b) for one-character a and b
Replace(s, a, b) == [i \in 1..Len(s) |-> IF s[i] = a THEN b ELSE s[i]]

\* str.isspace(): non-empty and all whitespace
IsSpaceStr(s) == s # <<>> /\ \A i \in 1..Len(s) : IsSpace(s[i])

RECURSIVE SplitOn(_, _)
SplitOn(s, sep) ==
    IF \A i \in 1..Len(s) : s[i] # sep
    THEN <<s>>
    ELSE LET k == CHOOSE i \in 1..Len(s) : s[i] = sep /\ \A j \in 1..(i - 1) : s[j] # sep
         IN  <<SubSeq(s, 1, k - 1)>> \o SplitOn(SubSeq(s, k + 1, Len(s)), sep)

Digits == <<"0", "1", "2", "3", "4", "5", "6", "7", "8", "9">>

IsDigit(c) == \E i \in 1..10 : Digits[i] = c

DigitVal(c) == (CHOOSE i \in 1..10 : Digits[i] = c) - 1

RECURSIVE DecVal(_)
DecVal(s) ==
    IF s = <<>> THEN 0 ELSE 10 * DecVal(SubSeq(s, 1, Len(s) - 1)) + DigitVal(s[Len(s)])

(***************************************************************************)
(* ipaddress.ip_address on the strings of the model (no ':' occurs in     *)
(* them, so the IPv6 parser rejects every one of them and only the IPv4    *)
(* grammar decides): four octets, each 1..3 digits, no leading zero,       *)
(* at most 255.                                                            *)
(***************************************************************************)
OctetOk(p) ==
    /\ p # <<>>
    /\ \A i \in 1..Len(p) : IsDigit(p[i])
    /\ Len(p) <= 3
    /\ (Len(p) > 1 => p[1] # "0")
    /\ DecVal(p) <= 255

ParsesAsIp(s) ==
    LET parts == SplitOn(s, ".")
    IN  Len(parts) = 4 /\ \A i \in 1..4 : OctetOk(parts[i])

Octets(s) == LET parts == SplitOn(s, ".") IN [i \in 1..4 |-> DecVal(parts[i])]

\* api_clients.is_valid_ip
is_valid_ip(ip_str) ==
    IF ip_str = <<>> \/ IsSpaceStr(ip_str) THEN FALSE ELSE ParsesAsIp(ip_str)

\* IPv4Address.is_private and the other scope properties
is_private(o) ==
    \/ o[1] = 0
    \/ o[1] = 10
    \/ o[1] = 127
    \/ (o[1] = 169 /\ o[2] = 254)
    \/ (o[1] = 172 /\ o[2] \in 16..31)
    \/ (o[1] = 192 /\ o[2] = 0 /\ o[3] = 0 /\ o[4] \in (0..7) \cup {170, 171})
    \/ (o[1] = 192 /\ o[2] = 0 /\ o[3] = 2)
    \/ (o[1] = 192 /\ o[2] = 168)
    \/ (o[1] = 198 /\ o[2] \in {18, 19})
    \/ (o[1] = 198 /\ o[2] = 51 /\ o[3] = 100)
    \/ (o[1] = 203 /\ o[2] = 0 /\ o[3] = 113)
    \/ o[1] >= 240

is_loopback(o) == o[1] = 127

is_link_local(o) == o[1] = 169 /\ o[2] = 254

is_multicast(o) == o[1] \in 224..239

is_reserved(o) == o[1] >= 240

\* the if/elif chain of get_ip_info that picks ip_type (None: a public address)
IpType(ip_address) ==
    LET ip_obj == Octets(ip_address)
    IN  IF is_private(ip_obj) THEN "Privada"
        ELSE IF is_loopback(ip_obj) THEN "Loopback"
        ELSE IF is_link_local(ip_obj) THEN "Link-Local"
        ELSE IF is_multicast(ip_obj) THEN "Multicast"
        ELSE IF is_reserved(ip_obj) THEN "Reservada"
        ELSE None

(***************************************************************************)
(* The enrichment provider's answers.  kind: "ok" (HTTP 200 and a JSON     *)
(* object), "timeout", "http" (raise_for_status raised, with the status),  *)
(* "conn" (ConnectionError), "reqexc" (another RequestException),          *)
(* "badjson_req" (the body is no JSON and response.json() raises           *)
(* requests' JSONDecodeError, a RequestException), "badjson_json" (the     *)
(* body is no JSON and response.json() raises json.JSONDecodeError, as     *)
(* older releases of requests do), "internal" (any other exception, such   *)
(* as a JSON body that is no object).                                      *)
(***************************************************************************)
Absent == "<absent>"

NoData == [org |-> <<>>, isp |-> Absent, city |-> "", region |-> "", country |-> "", hostname |-> ""]

GoogleData ==
    [org |-> <<"A", "S", "1", "5", " ", "G", "o", "o">>, isp |-> Absent,
     city |-> "Mountain View", region |-> "California", country |-> "US", hostname |-> "dns.google"]

BareData ==
    [org |-> <<>>, isp |-> "Comcast", city |-> "", region |-> "", country |-> "US", hostname |-> ""]

Failure(kind, status) == [kind |-> kind, status |-> status, data |-> NoData]

NoOutcome == Failure("none", 0)

Outcomes ==
    {[kind |-> "ok", status |-> 200, data |-> d] : d \in {GoogleData, BareData}}
    \cup {Failure("http", st) : st \in {401, 403, 404, 429, 500}}
    \cup {Failure(k, 0) : k \in {"timeout", "conn", "reqexc", "badjson_req", "badjson_json", "internal"}}

RECURSIVE Join(_)
\* "".join(chars)
Join(s) == IF s = <<>> THEN "" ELSE Head(s) \o Join(Tail(s))

RECURSIVE RunLen(_, _, _)
\* how many consecutive characters of s from position i are digits (digit = TRUE) or whitespace
RunLen(s, i, digit) ==
    IF i <= Len(s) /\ (IF digit THEN IsDigit(s[i]) ELSE IsSpace(s[i]))
    THEN 1 + RunLen(s, i + 1, digit)
    ELSE 0

\* re.match(r"^(AS\d+)\s+(.*)", org_field, re.IGNORECASE): whether it matches, and group(2)
OrgMatch(org_field) ==
    LET nd == RunLen(org_field, 3, TRUE)
        ns == RunLen(org_field, 3 + nd, FALSE)
        rest == SubSeq(org_field, 3 + nd + ns, Len(org_field))
        upto == IF \E i \in 1..Len(rest) : rest[i] = "\n"
                THEN (CHOOSE i \in 1..Len(rest) : rest[i] = "\n" /\ \A j \in 1..(i - 1) : rest[j] # "\n") - 1
                ELSE Len(rest)
    IN  [matched |-> /\ Len(org_field) >= 2
                     /\ org_field[1] \in {"A", "a"}
                     /\ org_field[2] \in {"S", "s"}
                     /\ nd >= 1
                     /\ ns >= 1,
         group2 |-> SubSeq(rest, 1, upto)]

\* the organization kept as it is, AS number included
IspValue_org_verbatim(data) ==
    IF data.org # <<>> THEN Join(data.org)
    ELSE IF data.isp \in {Absent, ""} THEN "N/A" ELSE data.isp

\* lines 295-300 of get_ip_info: the isp value of a successful lookup
IspValue(data) ==
    LET m == OrgMatch(data.org)
        from_org == IF data.org # <<>>
                    THEN (IF m.matched THEN Join(Strip(m.group2)) ELSE Join(data.org))
                    ELSE "N/A"
        isp_val == IF from_org = "" \/ from_org = "N/A"
                   THEN (IF data.isp = Absent THEN "N/A" ELSE data.isp)
                   ELSE from_org
    IN  IF isp_val # "" THEN isp_val ELSE "N/A"

OrNA(v) == IF v # "" THEN v ELSE "N/A"

NewResult ==
    [isp |-> "N/A", city |-> "N/A", region |-> "N/A", country |-> "N/A",
     hostname |-> "N/A", error |-> None]

\* a connection error tagged as a timeout
ErrorTag_conn_as_timeout(outcome) ==
    CASE outcome.kind \in {"timeout", "conn"} -> "Timeout IPinfo"
      [] outcome.kind = "http" /\ outcome.status \in {401, 403} -> "Token Invalido/Prohibido"
      [] outcome.kind = "http" /\ outcome.status = 404 -> "No Encontrado (ipinfo)"
      [] outcome.kind = "http" /\ outcome.status = 429 -> "Limite API Excedido"
      [] outcome.kind = "http" /\ outcome.status \notin {401, 403, 404, 429} ->
             "HTTP Error " \o ToString(outcome.status)
      [] outcome.kind \in {"reqexc", "badjson_req"} -> "Error de Red"
      [] outcome.kind = "badjson_json" -> "Respuesta Invalida"
      [] OTHER -> "Error Interno (IPinfo)"

\* the error tag of each except clause of get_ip_info
ErrorTag(outcome) ==
    CASE outcome.kind = "timeout" -> "Timeout IPinfo"
      [] outcome.kind = "http" /\ outcome.status \in {401, 403} -> "Token Invalido/Prohibido"
      [] outcome.kind = "http" /\ outcome.status = 404 -> "No Encontrado (ipinfo)"
      [] outcome.kind = "http" /\ outcome.status = 429 -> "Limite API Excedido"
      [] outcome.kind = "http" /\ outcome.status \notin {401, 403, 404, 429} ->
             "HTTP Error " \o ToString(outcome.status)
      [] outcome.kind = "conn" -> "Error de Conexion"
      [] outcome.kind \in {"reqexc", "badjson_req"} -> "Error de Red"
      [] outcome.kind = "badjson_json" -> "Respuesta Invalida"
      [] OTHER -> "Error Interno (IPinfo)"

\* lines 289-338 of get_ip_info: the record after the request
AfterRequest(result, outcome) ==
    IF outcome.kind = "ok"
    THEN [result EXCEPT !.isp = IspValue(outcome.data),
                        !.city = OrNA(outcome.data.city),
                        !.region = OrNA(outcome.data.region),
                        !.country = OrNA(outcome.data.country),
                        !.hostname = OrNA(outcome.data.hostname),
                        !.error = None]
    ELSE [result EXCEPT !.error = ErrorTag(outcome)]

\* "token is None" in place of "not token"
Falsy_none_only(s) == s = None

Falsy(s) == s = None \/ s = ""

\* whether get_ip_info reaches requests.get
NeedsRequest(ip_address, token, cache) ==
    /\ ip_address \notin DOMAIN cache
    /\ is_valid_ip(ip_address)
    /\ ~Falsy(token)
    /\ IpType(ip_address) = None

\* get_ip_info caching only what carries no error tag of a failed request
get_ip_info_no_error_cache(ip_address, token, cache, hp, logged, outcome) ==
    LET id == Len(hp) + 1
        ip_type == IpType(ip_address)
        rec == AfterRequest(NewResult, outcome)
        out(r, c, lg, net, crit) ==
            [ret |-> id, cache |-> c, heap |-> Append(hp, r), logged |-> lg,
             net |-> net, crit |-> crit]
    IN  IF ip_address \in DOMAIN cache
        THEN [ret |-> cache[ip_address], cache |-> cache, heap |-> hp, logged |-> logged,
              net |-> FALSE, crit |-> 0]
        ELSE IF ~is_valid_ip(ip_address)
        THEN out([NewResult EXCEPT !.error = "IP Invalida (Formato)"], cache, logged, FALSE, 0)
        ELSE IF Falsy(token)
        THEN out([NewResult EXCEPT !.error = "Token IPinfo Faltante"], cache, TRUE, FALSE,
                 IF logged THEN 0 ELSE 1)
        ELSE IF ip_type # None
        THEN out([NewResult EXCEPT !.error = "IP " \o ip_type, !.isp = "Red " \o ip_type],
                 cache @@ (ip_address :> id), logged, FALSE, 0)
        ELSE out(rec, IF rec.error = None THEN cache @@ (ip_address :> id) ELSE cache,
                 logged, TRUE, 0)

\* get_ip_info caching the record of an invalid address too
get_ip_info_caches_invalid(ip_address, token, cache, hp, logged, outcome) ==
    LET id == Len(hp) + 1
        ip_type == IpType(ip_address)
        out(r, c, lg, net, crit) ==
            [ret |-> id, cache |-> c, heap |-> Append(hp, r), logged |-> lg,
             net |-> net, crit |-> crit]
    IN  IF ip_address \in DOMAIN cache
        THEN [ret |-> cache[ip_address], cache |-> cache, heap |-> hp, logged |-> logged,
              net |-> FALSE, crit |-> 0]
        ELSE IF ~is_valid_ip(ip_address)
        THEN out([NewResult EXCEPT !.error = "IP Invalida (Formato)"],
                 cache @@ (ip_address :> id), logged, FALSE, 0)
        ELSE IF Falsy(token)
        THEN out([NewResult EXCEPT !.error = "Token IPinfo Faltante"], cache, TRUE, FALSE,
                 IF logged THEN 0 ELSE 1)
        ELSE IF ip_type # None
        THEN out([NewResult EXCEPT !.error = "IP " \o ip_type, !.isp = "Red " \o ip_type],
                 cache @@ (ip_address :> id), logged, FALSE, 0)
        ELSE out(AfterRequest(NewResult, outcome), cache @@ (ip_address :> id), logged, TRUE, 0)

(***************************************************************************)
(* api_clients.get_ip_info as a function of its arguments, the heap, the   *)
(* module flag and the provider's answer: the identity of the record it    *)
(* returns (ret), the cache and heap it leaves, the flag, whether a        *)
(* request was issued (net) and how many CRITICAL lines it logged (crit).  *)
(* The ValueError handler of lines 282-285 cannot be entered: is_valid_ip  *)
(* ran the same parser on the same string.                                 *)
(***************************************************************************)
get_ip_info(ip_address, token, cache, hp, logged, outcome) ==
    LET id == Len(hp) + 1
        result == NewResult
        ip_type == IpType(ip_address)
        out(rec, c, lg, net, crit) ==
            [ret |-> id, cache |-> c, heap |-> Append(hp, rec), logged |-> lg,
             net |-> net, crit |-> crit]
    IN  IF ip_address \in DOMAIN cache
        THEN [ret |-> cache[ip_address], cache |-> cache, heap |-> hp, logged |-> logged,
              net |-> FALSE, crit |-> 0]
        ELSE IF ~is_valid_ip(ip_address)
        THEN out([result EXCEPT !.error = "IP Invalida (Formato)"], cache, logged, FALSE, 0)
        ELSE IF Falsy(token)
        THEN out([result EXCEPT !.error = "Token IPinfo Faltante"], cache, TRUE, FALSE,
                 IF logged THEN 0 ELSE 1)
        ELSE IF ip_type # None
        THEN out([result EXCEPT !.error = "IP " \o ip_type, !.isp = "Red " \o ip_type],
                 cache @@ (ip_address :> id), logged, FALSE, 0)
        ELSE out(AfterRequest(result, outcome), cache @@ (ip_address :> id), logged, TRUE, 0)

(***************************************************************************)
(* The IP strings and tokens of the model.                                 *)
(***************************************************************************)
IP_PUBLIC == <<"8", ".", "8", ".", "8", ".", "8">>

IP_PUBLIC2 == <<"1", ".", "1", ".", "1", ".", "1">>

IP_PRIVATE == <<"1", "0", ".", "0", ".", "0", ".", "1">>

IP_LOOPBACK == <<"1", "2", "7", ".", "0", ".", "0", ".", "1">>

IP_LINKLOCAL == <<"1", "6", "9", ".", "2", "5", "4", ".", "0", ".", "1">>

IP_MULTICAST == <<"2", "2", "4", ".", "0", ".", "0", ".", "1">>

IP_RESERVED == <<"2", "4", "0", ".", "0", ".", "0", ".", "1">>

IP_BADOCTET == <<"2", "5", "6", ".", "1", ".", "1", ".", "1">>

ScopedIPs == {IP_PRIVATE, IP_LOOPBACK, IP_LINKLOCAL, IP_MULTICAST, IP_RESERVED}

LookupIPs == {IP_PUBLIC, IP_PUBLIC2, IP_BADOCTET} \cup ScopedIPs

Tokens == {None, "", "tok"}

EmptyCache == [x \in {} |-> 0]

(***************************************************************************)
(* Optional values: <<>> is Python's None where the other values are not   *)
(* strings, <<x>> is the value x.                                          *)
(***************************************************************************)
Nothing == <<>>

Some(x) == <<x>>

(***************************************************************************)
(* Timestamp strings as token sequences.  A date token carries a day       *)
(* number, a time token an hour of the day (minutes and seconds are 00),   *)
(* an offset token a whole number of hours east of UTC.                    *)
(***************************************************************************)
Tok(k, v) == [k |-> k, v |-> v]

Sp == Tok("ws", 0)

TS_EMPTY == <<>>

TS_NA == <<Tok("na", 0)>>

TS_NAIVE == <<Tok("date", 2), Sp, Tok("time", 10)>>

TS_UTC == <<Tok("date", 2), Sp, Tok("time", 10), Sp, Tok("utc", 0)>>

TS_OFFSET == <<Tok("date", 2), Sp, Tok("time", 3), Sp, Tok("off", 5)>>

TS_JUNK == <<Tok("word", 0)>>

RECURSIVE TsLStrip(_)
TsLStrip(s) == IF s # <<>> /\ Head(s).k = "ws" THEN TsLStrip(Tail(s)) ELSE s

RECURSIVE TsRStrip(_)
TsRStrip(s) ==
    IF s # <<>> /\ s[Len(s)].k = "ws" THEN TsRStrip(SubSeq(s, 1, Len(s) - 1)) ELSE s

\* str.strip() of a timestamp string
TsStrip(s) == TsRStrip(TsLStrip(s))

Kinds(s) == [i \in 1..Len(s) |-> s[i].k]

(***************************************************************************)
(* dateutil's parser.parse(timestamp_str, ignoretz=False, fuzzy=False) on  *)
(* the timestamps of the model: "date time", "date time UTC" and           *)
(* "date time +hh00" parse (surrounding whitespace is skipped); a word     *)
(* that is no date raises ParserError, a ValueError.  offset is Nothing    *)
(* for a naive result.  exc is the exception raised: a string of kind      *)
(* "overflow" is one on which the parser raises OverflowError (a number    *)
(* too large for a C long), of kind "typeerr" one on which it raises       *)
(* TypeError, of kind "fault" one on which it raises anything else.        *)
(***************************************************************************)
DateutilParse(timestamp_str) ==
    LET t == TsStrip(timestamp_str)
        k == Kinds(t)
        raises(exc) == [ok |-> FALSE, d |-> 0, h |-> 0, offset |-> Nothing, exc |-> exc]
    IN  IF k = <<"date", "ws", "time">>
        THEN [ok |-> TRUE, d |-> t[1].v, h |-> t[3].v, offset |-> Nothing, exc |-> ""]
        ELSE IF k = <<"date", "ws", "time", "ws", "utc">> \/ k = <<"date", "ws", "time", "ws", "off">>
        THEN [ok |-> TRUE, d |-> t[1].v, h |-> t[3].v, offset |-> Some(t[5].v), exc |-> ""]
        ELSE IF k = <<"overflow">> THEN raises("OverflowError")
        ELSE IF k = <<"typeerr">> THEN raises("TypeError")
        ELSE IF k = <<"fault">> THEN raises("Exception")
        ELSE raises("ValueError")

\* the timestamps on which the parser raises something else than ValueError
FaultyTimestamps == {<<Tok("overflow", 0)>>, <<Tok("typeerr", 0)>>, <<Tok("fault", 0)>>}

\* a rendered timestamp or an error text: tag "ok" with the local day, hour and the suffix after
\* "YYYY-MM-DD HH:MM:SS ", or the text itself as tag
Display(tag, d, h, suffix) == [tag |-> tag, d |-> d, h |-> h, suffix |-> suffix]

Text(tag) == Display(tag, 0, 0, "")

\* strftime's %z for a whole-hour offset
OffsetStr(off) ==
    LET a == IF off < 0 THEN 0 - off ELSE off
    IN  (IF off < 0 THEN "-" ELSE "+") \o (IF a < 10 THEN "0" ELSE "") \o ToString(a) \o "00"

\* strftime of the instant (hours since day 0, UTC) in a zone off hours east of UTC
Render(instant, off, suffix) ==
    Display("ok", (instant + off) \div 24, (instant + off) % 24, suffix)

(***************************************************************************)
(* The time zone database (zoneinfo and pytz agree on these zones): the    *)
(* offset east of UTC and the abbreviation of each zone the model knows.   *)
(* "Etc/GMT-5" is five hours east of UTC (POSIX sign); the database has    *)
(* "Etc/GMT-0" to "Etc/GMT-14" and "Etc/GMT+0" to "Etc/GMT+12".            *)
(***************************************************************************)
EtcGmt(sign, n) == "Etc/GMT" \o sign \o ToString(n)

KnownZones ==
    {"UTC", "America/Bogota"}
    \cup {EtcGmt("-", n) : n \in 0..14} \cup {EtcGmt("+", n) : n \in 0..12}

\* names ZoneInfo rejects with a ValueError instead of its lookup error: "" and "../UTC"
FaultZones == {"", "../UTC"}

\* "Etc/GMT-5" read with the sign as written
ZoneOffset_sign_as_written(name) ==
    IF \E n \in 0..14 : name = EtcGmt("-", n)
    THEN 0 - (CHOOSE n \in 0..14 : name = EtcGmt("-", n))
    ELSE IF \E n \in 0..12 : name = EtcGmt("+", n)
    THEN CHOOSE n \in 0..12 : name = EtcGmt("+", n)
    ELSE IF name = "America/Bogota" THEN 0 - 5
    ELSE 0

ZoneOffset(name) ==
    IF \E n \in 0..14 : name = EtcGmt("-", n)
    THEN CHOOSE n \in 0..14 : name = EtcGmt("-", n)
    ELSE IF \E n \in 0..12 : name = EtcGmt("+", n)
    THEN 0 - (CHOOSE n \in 0..12 : name = EtcGmt("+", n))
    ELSE IF name = "America/Bogota" THEN 0 - 5
    ELSE 0

\* strftime's %Z: "UTC", "GMT" for the Etc zones of offset 0, else the signed hours
ZoneAbbrev(name) ==
    LET off == ZoneOffset(name)
        a == IF off < 0 THEN 0 - off ELSE off
    IN  IF name = "UTC" THEN "UTC"
        ELSE IF off = 0 THEN "GMT"
        ELSE (IF off < 0 THEN "-" ELSE "+") \o (IF a < 10 THEN "0" ELSE "") \o ToString(a)

(***************************************************************************)
(* processing.parse_and_convert_timezone: the UTC instant (Nothing for     *)
(* None), the display string, and whether the call raised instead of       *)
(* returning.  The zone object comes from pytz.timezone or from ZoneInfo   *)
(* (lines 118-126); both know the same zones and both raise their lookup   *)
(* error for a name they do not know.                                      *)
(* has_pytz: the import of pytz succeeded; when it did not,                *)
(* the name UnknownTimeZoneError of line 135 is unbound and any exception  *)
(* of the conversion block ends in a NameError that leaves the function.   *)
(***************************************************************************)
\* a naive parse result read as local time of a machine five hours west of UTC
ToUtc_machine_local(parsed) ==
    IF parsed.offset = Nothing
    THEN parsed.d * 24 + parsed.h + 5
    ELSE parsed.d * 24 + parsed.h - parsed.offset[1]

\* lines 96-101: a naive result is given tzinfo UTC as it is, an aware one is moved to UTC;
\* the instant is counted in hours since day 0, 00:00 UTC
ToUtc(parsed) ==
    IF parsed.offset = Nothing
    THEN parsed.d * 24 + parsed.h
    ELSE parsed.d * 24 + parsed.h - parsed.offset[1]

\* every exception of the parser answered as a parse failure
ParseErrorText_always_parsing(exc) == Text("Error Parsing")

\* lines 102-110: the display string of each except clause
ParseErrorText(exc) ==
    IF exc \in {"ValueError", "OverflowError"} THEN Text("Error Parsing")
    ELSE IF exc = "TypeError" THEN Text("Error Tipo Parsing")
    ELSE Text("Error Interno (Parseo)")

parse_and_convert_timezone(timestamp_str, target_tz_str, has_pytz) ==
    LET parsed == DateutilParse(timestamp_str)
        utc == ToUtc(parsed)
        returned(dt, conv) == [dt |-> dt, conv |-> conv, raised |-> FALSE]
    IN  IF TsStrip(timestamp_str) \in {TS_NA, TS_EMPTY}
        THEN returned(Nothing, Text("N/A"))
        ELSE IF ~parsed.ok
        THEN returned(Nothing, ParseErrorText(parsed.exc))
        ELSE IF target_tz_str = "UTC"
        THEN returned(Some(utc), Render(utc, 0, "UTC" \o OffsetStr(0)))
        ELSE IF target_tz_str \in KnownZones
        THEN returned(Some(utc),
                      Render(utc, ZoneOffset(target_tz_str),
                             ZoneAbbrev(target_tz_str) \o OffsetStr(ZoneOffset(target_tz_str))))
        ELSE IF ~has_pytz
        THEN [dt |-> Nothing, conv |-> Text("NameError"), raised |-> TRUE]
        ELSE IF target_tz_str \in FaultZones
        THEN returned(Some(utc), Text("Error Interno (TZ Conv.)"))
        ELSE returned(Some(utc), Text("Error TZ Interno"))

(***************************************************************************)
(* The extraction service's answer.  kind "array": the text is a JSON      *)
(* array, items its elements; every other kind makes                       *)
(* extract_ip_data_with_gemini return None (lines 74-79, 134-144,          *)
(* 160-183, 231-240).  A JSON value is [t, v]: t its type ("str", "num",   *)
(* "null", or "absent" for a key the object lacks), v its text (for a      *)
(* number, what str() gives).                                              *)
(***************************************************************************)
JStr(v) == [t |-> "str", v |-> v]

JNull == [t |-> "null", v |-> <<>>]

JAbsent == [t |-> "absent", v |-> <<>>]

Obj(ip, ts) == [dict |-> TRUE, ip |-> ip, ts |-> ts]

NotAnObject == [dict |-> FALSE, ip |-> JAbsent, ts |-> JAbsent]

FailedResponse(kind) == [kind |-> kind, items |-> <<>>, open |-> "", close |-> ""]

FailKinds ==
    {"config_error", "blocked", "empty", "not_bracketed", "bad_json", "not_list",
     "timeout", "exception"}

\* the kinds of answer that carry text: a JSON array, text in brackets that is not JSON
\* ("[1,]"), a JSON value that is not an array ({"a": 1}), prose.  Around the text there
\* may be a Markdown fence of three backquotes: open is "fence json" (the fence and the
\* word json), "fence" or nothing, close is "fence" or nothing.
TextKinds == {"array", "bad_json", "not_list", "not_bracketed"}

\* lines 153-158: the opening fence goes only when it carries the word json, the closing fence always
StripFences(resp) ==
    [resp EXCEPT !.open = IF @ = "fence json" THEN "" ELSE @,
                 !.close = IF @ = "fence" THEN "" ELSE @]

\* line 160: potential_json_str.startswith('[') and potential_json_str.endswith(']')
Bracketed(potential_json) ==
    /\ potential_json.open = ""
    /\ potential_json.close = ""
    /\ potential_json.kind \in {"array", "bad_json"}

\* a JSON error answered with the empty array
JsonLoads_empty_on_error(potential_json) ==
    IF potential_json.kind = "array" THEN Some(potential_json.items) ELSE Some(<<>>)

\* lines 166-179: json.loads, Nothing when it raises JSONDecodeError
JsonLoads(potential_json) ==
    IF potential_json.kind = "array" THEN Some(potential_json.items) ELSE Nothing

\* None for a list that validation left empty
ReturnValidated_none_when_empty(validated_data) ==
    IF validated_data = <<>> THEN Nothing ELSE Some(validated_data)

\* lines 220-229: the validated list is returned, empty or not (line 226 or line 229)
ReturnValidated(validated_data) == Some(validated_data)

\* the loop deduplicating by IP alone
RECURSIVE ValidateItems_by_ip(_, _, _)
ValidateItems_by_ip(items, validated_data, seen_pairs) ==
    IF items = <<>> THEN validated_data
    ELSE LET item == Head(items)
             ts_str == IF item.ts.t = "null" THEN <<>> ELSE item.ts.v
             ip_addr_cleaned == Replace(Strip(item.ip.v), ",", ".")
             ts_str_cleaned == TsStrip(ts_str)
         IN  IF \/ ~item.dict \/ item.ip.t = "absent" \/ item.ts.t = "absent"
                \/ item.ip.t # "str"
                \/ ~is_valid_ip(ip_addr_cleaned)
                \/ ip_addr_cleaned \in seen_pairs
             THEN ValidateItems_by_ip(Tail(items), validated_data, seen_pairs)
             ELSE ValidateItems_by_ip(Tail(items),
                                      Append(validated_data,
                                             [ip_address |-> ip_addr_cleaned,
                                              timestamp_str |-> ts_str_cleaned]),
                                      seen_pairs \cup {ip_addr_cleaned})

\* the loop without the check of the cleaned address
RECURSIVE ValidateItems_keeps_invalid_ip(_, _, _)
ValidateItems_keeps_invalid_ip(items, validated_data, seen_pairs) ==
    IF items = <<>> THEN validated_data
    ELSE LET item == Head(items)
             ts_str == IF item.ts.t = "null" THEN <<>> ELSE item.ts.v
             ip_addr_cleaned == Replace(Strip(item.ip.v), ",", ".")
             ts_str_cleaned == TsStrip(ts_str)
             pair == <<ip_addr_cleaned, ts_str_cleaned>>
         IN  IF \/ ~item.dict \/ item.ip.t = "absent" \/ item.ts.t = "absent"
                \/ item.ip.t # "str"
                \/ pair \in seen_pairs
             THEN ValidateItems_keeps_invalid_ip(Tail(items), validated_data, seen_pairs)
             ELSE ValidateItems_keeps_invalid_ip(Tail(items),
                                                 Append(validated_data,
                                                        [ip_address |-> ip_addr_cleaned,
                                                         timestamp_str |-> ts_str_cleaned]),
                                                 seen_pairs \cup {pair})

\* lines 188-218: the loop over the parsed array
RECURSIVE ValidateItems(_, _, _)
ValidateItems(items, validated_data, seen_pairs) ==
    IF items = <<>> THEN validated_data
    ELSE LET item == Head(items)
             ts_str == IF item.ts.t = "null" THEN <<>> ELSE item.ts.v
             ip_addr_cleaned == Replace(Strip(item.ip.v), ",", ".")
             ts_str_cleaned == TsStrip(ts_str)
             pair == <<ip_addr_cleaned, ts_str_cleaned>>
         IN  IF ~item.dict \/ item.ip.t = "absent" \/ item.ts.t = "absent"
             THEN ValidateItems(Tail(items), validated_data, seen_pairs)
             ELSE IF item.ip.t # "str"
             THEN ValidateItems(Tail(items), validated_data, seen_pairs)
             ELSE IF ~is_valid_ip(ip_addr_cleaned)
             THEN ValidateItems(Tail(items), validated_data, seen_pairs)
             ELSE IF pair \in seen_pairs
             THEN ValidateItems(Tail(items), validated_data, seen_pairs)
             ELSE ValidateItems(Tail(items),
                                Append(validated_data,
                                       [ip_address |-> ip_addr_cleaned,
                                        timestamp_str |-> ts_str_cleaned]),
                                seen_pairs \cup {pair})

\* api_clients.extract_ip_data_with_gemini: Nothing for None, Some(list) otherwise
extract_ip_data_with_gemini(api_key, resp) ==
    IF Falsy(api_key) THEN Nothing
    ELSE IF resp.kind = "config_error" THEN Nothing
    ELSE IF resp.kind \in {"timeout", "exception"} THEN Nothing
    ELSE IF resp.kind \in {"blocked", "empty"} THEN Nothing
    ELSE IF ~Bracketed(StripFences(resp)) THEN Nothing
    ELSE LET parsed == JsonLoads(StripFences(resp))
         IN  IF parsed = Nothing THEN Nothing
             ELSE ReturnValidated(ValidateItems(parsed[1], <<>>, {}))

(***************************************************************************)
(* Initial state: nothing has run.                                         *)
(***************************************************************************)
InitLookupVars ==
    /\ heap = <<>>
    /\ ip_info_cache = EmptyCache
    /\ token_missing_logged = FALSE
    /\ critical_logs = 0
    /\ calls = <<>>

NoReturn == [kind |-> "pending", results |-> <<>>, metadata |-> Nothing]

NotReported == [front_end |-> "none", state |-> "running"]

InitRunVars ==
    /\ pc = "idle"
    /\ text_content = Nothing
    /\ response = FailedResponse("none")
    /\ extracted_data = Nothing
    /\ idx = 0
    /\ ip_info = 0
    /\ processed_results = <<>>
    /\ results_final = Nothing
    /\ pending = "none"
    /\ progress = <<>>
    /\ ops = <<>>
    /\ handler_attached = FALSE
    /\ ret = NoReturn
    /\ front = NotReported
    /\ export_list = <<>>

InitNoArgs ==
    /\ gemini_key = None
    /\ ipinfo_token = None
    /\ file_exists = FALSE
    /\ target_timezone = "UTC"

(***************************************************************************)
(* SpecLookup: a caller makes up to MaxCalls calls of get_ip_info that     *)
(* share one cache, each with any IP string and any token.                 *)
(***************************************************************************)
CallRecord(ip_address, token, r, outcome) ==
    [ip |-> ip_address, token |-> token, ret |-> r.ret, net |-> r.net, outcome |-> outcome,
     hit |-> ip_address \in DOMAIN ip_info_cache]

\* one call of get_ip_info(ip_address, token, ip_info_cache)
DoLookup(ip_address, token, outcome) ==
    \E r \in {get_ip_info(ip_address, token, ip_info_cache, heap, token_missing_logged, outcome)} :
        /\ heap' = r.heap
        /\ ip_info_cache' = r.cache
        /\ token_missing_logged' = r.logged
        /\ critical_logs' = critical_logs + r.crit
        /\ calls' = Append(calls, CallRecord(ip_address, token, r, outcome))

\* answers with other organization fields: "Comcast", "as15 Goo", "AS15 " (no name),
\* "AS15Goo", "AS Goo", "N/A", "AS15  Goo " (padded), each with the isp field "Telco",
\* and an answer whose isp field is the empty string
OrgOutcomes ==
    {[kind |-> "ok", status |-> 200, data |-> [BareData EXCEPT !.org = o, !.isp = "Telco"]] :
        o \in {<<"C", "o", "m", "c", "a", "s", "t">>, <<"a", "s", "1", "5", " ", "G", "o", "o">>,
               <<"A", "S", "1", "5", " ">>, <<"A", "S", "1", "5", "G", "o", "o">>,
               <<"A", "S", " ", "G", "o", "o">>, <<"N", "/", "A">>,
               <<"A", "S", "1", "5", " ", " ", "G", "o", "o", " ">>}}
    \cup {[kind |-> "ok", status |-> 200, data |-> [BareData EXCEPT !.isp = ""]]}

CallGetIpInfo ==
    /\ Len(calls) < MaxCalls
    /\ \E ip_address \in LookupIPs, token \in Tokens :
          \E outcome \in (IF NeedsRequest(ip_address, token, ip_info_cache)
                          THEN Outcomes \cup OrgOutcomes ELSE {NoOutcome}) :
             DoLookup(ip_address, token, outcome)
    /\ UNCHANGED <<gui, pytz, tz_calls, run_vars>>

InitLookup == pytz = TRUE /\ InitLookupVars /\ InitNoArgs /\ InitRunVars /\ tz_calls = <<>> /\ gui = GuiAtConstruction

NextLookup == CallGetIpInfo

SpecLookup == InitLookup /\ [][NextLookup]_vars

(***************************************************************************)
(* SpecTz: a caller makes up to MaxNormalizations calls of                 *)
(* parse_and_convert_timezone, each with any timestamp string and any      *)
(* target zone string, in a process with or without pytz; or with the zone *)
(* the window's selector names, mapped by _map_display_tz_to_backend.      *)
(***************************************************************************)
Days == {1, 2}

Hours == {0, 3, 10, 22}

Offsets == {0 - 5, 5}

DateTimes == {<<Tok("date", d), Sp, Tok("time", h)>> : d \in Days, h \in Hours}

Timestamps ==
    DateTimes
    \cup {t \o <<Sp, Tok("utc", 0)>> : t \in DateTimes}
    \cup {t \o <<Sp, Tok("off", k)>> : t \in DateTimes, k \in Offsets}
    \cup {TS_EMPTY, <<Sp>>, TS_NA, <<Sp>> \o TS_NA, TS_JUNK, <<Sp>> \o TS_NAIVE \o <<Sp>>}
    \cup FaultyTimestamps

TargetZones ==
    {"UTC", "Etc/GMT-5", "Etc/GMT+5", "America/Bogota"} \cup FaultZones \cup {"Nowhere/Zone", "UTC+5"}

CallParseAndConvert ==
    /\ Len(tz_calls) < MaxNormalizations
    /\ \E timestamp_str \in Timestamps, target_tz_str \in TargetZones :
          \E r \in {parse_and_convert_timezone(timestamp_str, target_tz_str, pytz)} :
             tz_calls' = Append(tz_calls, [timestamp_str |-> timestamp_str,
                                           target_tz_str |-> target_tz_str,
                                           display_tz |-> <<>>, mapped |-> FALSE,
                                           dt |-> r.dt, conv |-> r.conv, raised |-> r.raised])
    /\ UNCHANGED <<gui, pytz, lookup_vars, run_vars>>

(***************************************************************************)
(* IPAnalyzerApp._map_display_tz_to_backend on a display name, a sequence  *)
(* of characters; the backend name is a string.                            *)
(***************************************************************************)
UTC_NAME == <<"U", "T", "C">>

\* "UTC+N" mapped to "Etc/GMT+N"
_map_display_tz_to_backend_sign_kept(display_tz) ==
    IF display_tz = UTC_NAME THEN "UTC"
    ELSE IF Len(display_tz) \in {5, 6} /\ display_tz[4] \in {"+", "-"}
    THEN EtcGmt(display_tz[4], DecVal(SubSeq(display_tz, 5, Len(display_tz))))
    ELSE Join(display_tz)

_map_display_tz_to_backend(display_tz) ==
    LET digits == SubSeq(display_tz, 5, Len(display_tz))
        match == /\ Len(display_tz) \in {5, 6}
                 /\ SubSeq(display_tz, 1, 3) = UTC_NAME
                 /\ display_tz[4] \in {"+", "-"}
                 /\ \A i \in 1..Len(digits) : IsDigit(digits[i])
    IN  IF display_tz = UTC_NAME THEN "UTC"
        ELSE IF match
        THEN EtcGmt(IF display_tz[4] = "+" THEN "-" ELSE "+", DecVal(digits))
        ELSE Join(display_tz)

\* the decimal digits of n < 100
DecChars(n) == IF n < 10 THEN <<ToString(n)>> ELSE <<ToString(n \div 10), ToString(n % 10)>>

\* the values of the zone selector (line 256), a read-only list
tz_offsets ==
    {UTC_NAME} \cup {UTC_NAME \o <<"+">> \o DecChars(h) : h \in 1..14}
               \cup {UTC_NAME \o <<"-">> \o DecChars(h) : h \in 1..12}

\* the selector's values and other arguments of the mapping: "UTC+05", "UTC+15", "UTC-13",
\* "UTC+0", "UTC+", "utc+5", "UTC+5h", "Etc/GMT-5"
DisplayZones ==
    tz_offsets
    \cup {UTC_NAME \o <<"+", "0", "5">>, UTC_NAME \o <<"+", "1", "5">>, UTC_NAME \o <<"-", "1", "3">>,
          UTC_NAME \o <<"+", "0">>, UTC_NAME \o <<"+">>, <<"u", "t", "c", "+", "5">>,
          UTC_NAME \o <<"+", "5", "h">>, <<"E", "t", "c", "/", "G", "M", "T", "-", "5">>}

\* the timestamps of the runs started from the window
DisplayedTimestamps ==
    {TS_OFFSET, TS_JUNK, <<Tok("date", 1), Sp, Tok("time", 22), Sp, Tok("utc", 0)>>}

\* _start_analysis_thread (line 694): the selected name is mapped and the run converts
\* each timestamp to the mapped zone (processing.py line 227)
CallWithDisplayZone ==
    /\ Len(tz_calls) < MaxNormalizations
    /\ \E timestamp_str \in DisplayedTimestamps, display_tz \in DisplayZones :
          \E r \in {parse_and_convert_timezone(timestamp_str,
                                               _map_display_tz_to_backend(display_tz), pytz)} :
             tz_calls' = Append(tz_calls, [timestamp_str |-> timestamp_str,
                                           target_tz_str |-> _map_display_tz_to_backend(display_tz),
                                           display_tz |-> display_tz, mapped |-> TRUE,
                                           dt |-> r.dt, conv |-> r.conv, raised |-> r.raised])
    /\ UNCHANGED <<gui, pytz, lookup_vars, run_vars>>

InitTz == pytz \in BOOLEAN /\ InitLookupVars /\ InitNoArgs /\ InitRunVars /\ tz_calls = <<>> /\ gui = GuiAtConstruction

NextTz == CallParseAndConvert \/ CallWithDisplayZone

SpecTz == InitTz /\ [][NextTz]_vars

(***************************************************************************)
(* processing.process_ip_analysis, one action per step of the run.         *)
(***************************************************************************)
ITEM_A == Obj(JStr(IP_PUBLIC), JStr(TS_UTC))

\* the same pair as ITEM_A once cleaned: " 8,8.8.8" and a padded timestamp
ITEM_A_DIRTY ==
    Obj(JStr(<<" ", "8", ",", "8", ".", "8", ".", "8">>), JStr(<<Sp>> \o TS_UTC \o <<Sp>>))

ITEM_A_LATER == Obj(JStr(IP_PUBLIC), JStr(TS_OFFSET))

ITEM_B == Obj(JStr(IP_PUBLIC2), JStr(TS_JUNK))

ITEM_PRIVATE == Obj(JStr(IP_PRIVATE), JStr(TS_EMPTY))

ITEM_BAD_IP == Obj(JStr(IP_BADOCTET), JStr(TS_UTC))

Items == {ITEM_A, ITEM_A_DIRTY, ITEM_A_LATER, ITEM_B, ITEM_PRIVATE, ITEM_BAD_IP, NotAnObject}

SeqsUpTo(S, n) == UNION {[1..k -> S] : k \in 0..n}

Responses ==
    {FailedResponse(k) : k \in FailKinds}
    \cup {[kind |-> "array", items |-> a, open |-> "", close |-> ""] :
              a \in SeqsUpTo(Items, MaxItems)}

RunZones == {"UTC", "Etc/GMT-5", "Nowhere/Zone"}

(***************************************************************************)
(* SpecExtract: one call of extract_ip_data_with_gemini with any key and   *)
(* any answer of the service, fenced or not.                               *)
(***************************************************************************)
Fenced(resp) ==
    {[resp EXCEPT !.open = o, !.close = c] : o \in {"", "fence json", "fence"}, c \in {"", "fence"}}

\* elements of other shapes: without "timestamp_str", with null or the number 1700000000 for
\* it, with the number 8 for "ip_address", without "ip_address"
TypedItems ==
    {Obj(JStr(IP_PUBLIC), JAbsent), Obj(JStr(IP_PUBLIC2), JNull),
     Obj(JStr(IP_PRIVATE), [t |-> "num", v |-> <<Tok("word", 1700000000)>>]),
     Obj([t |-> "num", v |-> <<"8">>], JStr(TS_UTC)), Obj(JAbsent, JStr(TS_UTC))}

FencedResponses ==
    {FailedResponse(k) : k \in FailKinds \ TextKinds}
    \cup UNION {Fenced(r) : r \in {rr \in Responses : rr.kind \in TextKinds}}
    \cup UNION {Fenced([kind |-> "array", items |-> a, open |-> "", close |-> ""]) :
                    a \in SeqsUpTo(Items \cup TypedItems, MaxItems) \ SeqsUpTo(Items, MaxItems)}

CallExtract ==
    /\ pc = "idle"
    /\ \E resp \in FencedResponses :
          /\ response' = resp
          /\ extracted_data' = extract_ip_data_with_gemini(gemini_key, resp)
    /\ pc' = "extract_returned"
    /\ UNCHANGED <<gui, tz_calls, front, pytz, lookup_vars, gemini_key, ipinfo_token, file_exists,
                   target_timezone, text_content, idx, ip_info, processed_results,
                   results_final, pending, progress, ops, handler_attached, ret, export_list>>

InitExtract ==
    /\ pytz = TRUE
    /\ InitLookupVars
    /\ InitRunVars
    /\ tz_calls = <<>> /\ gui = GuiAtConstruction
    /\ gemini_key \in {None, "", "key"}
    /\ ipinfo_token = None
    /\ file_exists = FALSE
    /\ target_timezone = "UTC"

NextExtract == CallExtract

SpecExtract == InitExtract /\ [][NextExtract]_vars

BLANK_TEXT == <<" ", "\n">>

LOG_TEXT == <<"l", "o", "g">>

\* _report_progress (lines 171-178): the percentage is clamped to 0..100 and the event is queued
Clamp(perc) == IF perc < 0 THEN 0 ELSE IF perc > 100 THEN 100 ELSE perc

Event(step, perc) == [step |-> step, percentage |-> Clamp(perc)]

_report_progress(queue, step, perc) == Append(queue, Event(step, perc))

\* lines 213, 217-218: base_prog + int(((idx + 1) / total_ips) * processing_weight)
base_prog == 30

processing_weight == 70

\* the share of the candidates still to do instead of the share of those reached
CurrentPerc_remaining(i, total_ips) == base_prog + ((total_ips - i) * processing_weight) \div total_ips

\* line 217: int(((idx + 1) / total_ips) * processing_weight), computed in binary64 floating
\* point.  The quotient is rounded, and its product with 70 is again; for k/n = 47/70 the
\* product is 46.99999999999999 and int() gives 46, where 70 * k / n is 47.  For every other
\* ratio with n up to 300 the result is the integer part of 70 * k / n.
ProgShare(k, n) ==
    IF 70 * k = 47 * n
    THEN (k * processing_weight) \div n - 1
    ELSE (k * processing_weight) \div n

CurrentPerc(i, total_ips) == base_prog + ProgShare(i + 1, total_ips)

\* lines 156-181: the handler is attached and the first progress event goes out
StartRun ==
    /\ pc = "idle"
    /\ handler_attached' = TRUE
    /\ progress' = _report_progress(progress, "Inicio", 0)
    /\ pc' = "validating"
    /\ UNCHANGED <<gui, tz_calls, front, pytz, lookup_vars, gemini_key, ipinfo_token, file_exists, target_timezone,
                   text_content, response, extracted_data, idx, ip_info, processed_results,
                   results_final, pending, ops, ret, export_list>>

\* the checks of lines 190-193 without the one of the enrichment token
ValidationResult_no_token_check(key, token, is_file) ==
    IF Falsy(key) THEN "Falta API Key Gemini"
    ELSE IF ~is_file THEN "Archivo no encontrado"
    ELSE "ok"

\* what lines 184-193 decide: the reason of the early return, or "ok"
ValidationResult(key, token, is_file) ==
    IF Falsy(key) THEN "Falta API Key Gemini"
    ELSE IF Falsy(token) THEN "Falta Token IPinfo"
    ELSE IF ~is_file THEN "Archivo no encontrado"
    ELSE "ok"

\* lines 184-195
Validate ==
    /\ pc = "validating"
    /\ IF ValidationResult(gemini_key, ipinfo_token, file_exists) # "ok"
       THEN /\ progress' = _report_progress(progress, "Error", 100)
            /\ pending' = "return None"
            /\ pc' = "finally"
       ELSE /\ pc' = "reading"
            /\ UNCHANGED <<progress, pending>>
    /\ UNCHANGED <<gui, tz_calls, front, pytz, lookup_vars, gemini_key, ipinfo_token, file_exists, target_timezone,
                   text_content, response, extracted_data, idx, ip_info, processed_results,
                   results_final, ops, handler_attached, ret, export_list>>

\* the test of line 200 left out: blank text goes on to the extraction
AfterRead_blank_goes_on(content) ==
    IF content = Nothing THEN [step |-> "Error", pending |-> "return None"]
    ELSE [step |-> "", pending |-> "none"]

\* what lines 199-200 do with the text read: the terminal event and return, or "go on"
AfterRead(content) ==
    IF content = Nothing THEN [step |-> "Error", pending |-> "return None"]
    ELSE IF Strip(content[1]) = <<>> THEN [step |-> "Completado", pending |-> "return []"]
    ELSE [step |-> "", pending |-> "none"]

\* lines 197-200: read_input_file returns None, blank text or text
Read ==
    /\ pc = "reading"
    /\ \E content \in {Nothing, Some(<<>>), Some(BLANK_TEXT), Some(LOG_TEXT)} :
          /\ text_content' = content
          /\ ops' = Append(ops, "read_input_file")
          /\ LET after == AfterRead(content)
                 reported == _report_progress(progress, "Lectura", 5)
             IN  IF after.pending # "none"
                 THEN /\ progress' = _report_progress(reported, after.step, 100)
                      /\ pending' = after.pending
                      /\ pc' = "finally"
                 ELSE /\ progress' = reported
                      /\ pending' = pending
                      /\ pc' = "extracting"
    /\ UNCHANGED <<gui, tz_calls, front, pytz, lookup_vars, gemini_key, ipinfo_token, file_exists, target_timezone,
                   response, extracted_data, idx, ip_info, processed_results,
                   results_final, handler_attached, ret, export_list>>

\* an empty extraction handled like a failed one
AfterExtract_empty_fails(extracted) ==
    IF extracted = Nothing \/ extracted[1] = <<>> THEN [step |-> "Error", pending |-> "return None"]
    ELSE [step |-> "", pending |-> "none"]

\* what lines 205-206 do with the extraction's result
AfterExtract(extracted) ==
    IF extracted = Nothing THEN [step |-> "Error", pending |-> "return None"]
    ELSE IF extracted[1] = <<>> THEN [step |-> "Completado", pending |-> "return []"]
    ELSE [step |-> "", pending |-> "none"]

\* lines 202-214: the extraction call and the set-up of the loop
Extract ==
    /\ pc = "extracting"
    /\ \E resp \in Responses :
          \E extracted \in {extract_ip_data_with_gemini(gemini_key, resp)} :
             /\ response' = resp
             /\ extracted_data' = extracted
             /\ ops' = Append(ops, "extract_ip_data_with_gemini")
             /\ LET after == AfterExtract(extracted)
                    reported == _report_progress(progress, "Extraccion IA", 15)
                IN  IF after.pending # "none"
                    THEN /\ progress' = _report_progress(reported, after.step, 100)
                         /\ pending' = after.pending
                         /\ pc' = "finally"
                    ELSE /\ progress' = _report_progress(reported, "Procesando IPs", base_prog)
                         /\ pending' = pending
                         /\ pc' = "loop_report"
    /\ UNCHANGED <<gui, tz_calls, front, pytz, lookup_vars, gemini_key, ipinfo_token, file_exists, target_timezone,
                   text_content, idx, ip_info, processed_results, results_final,
                   handler_attached, ret, export_list>>

\* lines 216-221: the progress event of candidate idx + 1
ReportCandidate ==
    /\ pc = "loop_report"
    /\ LET total_ips == Len(extracted_data[1])
       IN  progress' = _report_progress(progress,
                                        "Procesando IP " \o ToString(idx + 1) \o "/" \o ToString(total_ips),
                                        CurrentPerc(idx, total_ips))
    /\ pc' = "loop_sleep"
    /\ UNCHANGED <<gui, tz_calls, front, pytz, lookup_vars, gemini_key, ipinfo_token, file_exists, target_timezone,
                   text_content, response, extracted_data, idx, ip_info, processed_results,
                   results_final, pending, ops, handler_attached, ret, export_list>>

\* line 223: time.sleep(0.1)
Sleep ==
    /\ pc = "loop_sleep"
    /\ ops' = Append(ops, "sleep")
    /\ pc' = "loop_lookup"
    /\ UNCHANGED <<gui, tz_calls, front, pytz, lookup_vars, gemini_key, ipinfo_token, file_exists, target_timezone,
                   text_content, response, extracted_data, idx, ip_info, processed_results,
                   results_final, pending, progress, handler_attached, ret, export_list>>

\* the audit string taken from the converted timestamp instead of the UTC instant
ResultRecord_utc_from_converted(item, normalized, info) ==
    [ip_address |-> item.ip_address,
     raw_timestamp_str |-> item.timestamp_str,
     original_timestamp_utc |-> normalized.dt,
     original_timestamp_utc_str |-> normalized.conv,
     converted_timestamp |-> normalized.conv,
     ip_info |-> info]

\* lines 231-242: the result record of one candidate
ResultRecord(item, normalized, info) ==
    [ip_address |-> item.ip_address,
     raw_timestamp_str |-> item.timestamp_str,
     original_timestamp_utc |-> normalized.dt,
     original_timestamp_utc_str |->
         IF normalized.dt # Nothing THEN Render(normalized.dt[1], 0, "UTC") ELSE Text("N/A"),
     converted_timestamp |-> normalized.conv,
     ip_info |-> info]

\* the new record put in front of the list
AppendResult_in_front(results, record) == <<record>> \o results

\* line 236: processed_results.append(record)
AppendResult(results, record) == Append(results, record)

\* lines 224-243: the lookup, the normalisation and the record of candidate idx + 1
Enrich ==
    /\ pc = "loop_lookup"
    /\ LET item == extracted_data[1][idx + 1]
       IN  /\ \E outcome \in (IF NeedsRequest(item.ip_address, ipinfo_token, ip_info_cache)
                              THEN Outcomes ELSE {NoOutcome}) :
                 DoLookup(item.ip_address, ipinfo_token, outcome)
           /\ ops' = Append(ops, "get_ip_info")
           /\ ip_info' = calls'[Len(calls')].ret
           /\ \E normalized \in {parse_and_convert_timezone(item.timestamp_str, target_timezone, pytz)} :
                 IF normalized.raised
                 THEN /\ pending' = "raise"
                      /\ pc' = "finally"
                      /\ UNCHANGED <<idx, processed_results, results_final>>
                 ELSE /\ processed_results' =
                             AppendResult(processed_results, ResultRecord(item, normalized, ip_info'))
                      /\ idx' = idx + 1
                      /\ pending' = pending
                      /\ IF idx + 1 < Len(extracted_data[1])
                         THEN pc' = "loop_report" /\ UNCHANGED results_final
                         ELSE pc' = "finally" /\ results_final' = Some(processed_results')
    /\ UNCHANGED <<gui, tz_calls, front, pytz, gemini_key, ipinfo_token, file_exists, target_timezone, text_content,
                   response, extracted_data, progress, handler_attached, ret, export_list>>

\* lines 257-272: the value the function ends with, given how the try block was left
ReturnValue(how, final, tz) ==
    IF how = "raise" THEN [kind |-> "raised", results |-> <<>>, metadata |-> Nothing]
    ELSE IF how = "return None" THEN [kind |-> "None", results |-> <<>>, metadata |-> Nothing]
    ELSE IF how = "return []" THEN [kind |-> "list", results |-> <<>>, metadata |-> Nothing]
    ELSE IF final # Nothing
    THEN [kind |-> "dict", results |-> final[1], metadata |-> Some([target_timezone |-> tz])]
    ELSE [kind |-> "None", results |-> <<>>, metadata |-> Nothing]

\* the handler removed after the try block instead of in its finally clause: an exception
\* leaves it attached
Finally_handler_kept_on_raise ==
    /\ pc = "finally"
    /\ handler_attached' = (pending = "raise")
    /\ progress' = IF results_final # Nothing
                   THEN _report_progress(progress, "Completado", 100)
                   ELSE progress
    /\ ret' = ReturnValue(pending, results_final, target_timezone)
    /\ pc' = "done"
    /\ UNCHANGED <<gui, tz_calls, front, pytz, lookup_vars, gemini_key, ipinfo_token, file_exists, target_timezone,
                   text_content, response, extracted_data, idx, ip_info, processed_results,
                   results_final, pending, ops, export_list>>

\* lines 245-272: the finally block, then the return (or the exception goes on to the caller)
Finally ==
    /\ pc = "finally"
    /\ handler_attached' = FALSE
    /\ progress' = IF results_final # Nothing
                   THEN _report_progress(progress, "Completado", 100)
                   ELSE progress
    /\ ret' = ReturnValue(pending, results_final, target_timezone)
    /\ pc' = "done"
    /\ UNCHANGED <<gui, tz_calls, front, pytz, lookup_vars, gemini_key, ipinfo_token, file_exists, target_timezone,
                   text_content, response, extracted_data, idx, ip_info, processed_results,
                   results_final, pending, ops, export_list>>

(***************************************************************************)
(* file_io._prepare_export_data: the flat rows of the report.  It reads    *)
(* the records through the heap and returns the heap as it leaves it.      *)
(***************************************************************************)
\* ", ".join(p for p in [city, region, country] if p and p != "N/A"), "N/A" when none is left
RECURSIVE JoinParts(_)
JoinParts(parts) ==
    IF parts = <<>> THEN ""
    ELSE IF Len(parts) = 1 THEN parts[1]
    ELSE parts[1] \o ", " \o JoinParts(Tail(parts))

Location(city, region, country) ==
    LET keep(p) == IF p # "" /\ p # "N/A" THEN <<p>> ELSE <<>>
        location_parts == keep(city) \o keep(region) \o keep(country)
    IN  IF location_parts # <<>> THEN JoinParts(location_parts) ELSE "N/A"

\* lines 83-114: one flat row
FlatData(orden, result, info) ==
    LET base == [orden |-> orden, ip_address |-> result.ip_address,
                 raw_timestamp_str |-> result.raw_timestamp_str,
                 timestamp_utc |-> result.original_timestamp_utc_str,
                 timestamp_converted |-> result.converted_timestamp]
    IN  IF info.error # None /\ info.error # ""
        THEN base @@ [isp |-> "Error: " \o info.error, city |-> "N/A", region |-> "N/A",
                      country |-> "N/A", hostname |-> "N/A", location |-> "N/A",
                      ip_info_error |-> info.error]
        ELSE base @@ [isp |-> OrNA(info.isp), city |-> OrNA(info.city),
                      region |-> OrNA(info.region), country |-> OrNA(info.country),
                      hostname |-> OrNA(info.hostname),
                      location |-> Location(OrNA(info.city), OrNA(info.region), OrNA(info.country)),
                      ip_info_error |-> None]

\* the flattening writing its row's enrichment fields into the record instead of the row
_prepare_export_data_inplace(results, hp) ==
    [export_list |-> [i \in 1..Len(results) |-> FlatData(i, results[i], hp[results[i].ip_info])],
     heap |-> [k \in 1..Len(hp) |->
                  IF \E i \in 1..Len(results) : results[i].ip_info = k /\ hp[k].error # None
                  THEN [hp[k] EXCEPT !.isp = "Error: " \o hp[k].error]
                  ELSE hp[k]]]

_prepare_export_data(results, hp) ==
    [export_list |-> [i \in 1..Len(results) |-> FlatData(i, results[i], hp[results[i].ip_info])],
     heap |-> hp]

(***************************************************************************)
(* SpecProgress: the per-candidate loop of a run whose extraction returned *)
(* 1..MaxTotal candidates (one private address seen at as many times), so  *)
(* that the loop's progress percentages are those of long lists.           *)
(***************************************************************************)
ManyItems(n) ==
    [k \in 1..n |-> Obj(JStr(IP_PRIVATE), JStr(<<Tok("date", k), Sp, Tok("time", 10)>>))]

ManyResponse(n) == [kind |-> "array", items |-> ManyItems(n), open |-> "", close |-> ""]

\* what the validation loop makes of ManyItems(n): its elements are clean and their pairs
\* differ, so each gives one candidate
ManyCandidates(n) ==
    [k \in 1..n |-> [ip_address |-> IP_PRIVATE,
                     timestamp_str |-> <<Tok("date", k), Sp, Tok("time", 10)>>]]

InitProgress ==
    /\ pytz = TRUE
    /\ InitLookupVars
    /\ tz_calls = <<>> /\ gui = GuiAtConstruction
    /\ gemini_key = "key"
    /\ ipinfo_token = "tok"
    /\ file_exists = TRUE
    /\ target_timezone = "UTC"
    /\ pc = "loop_report"
    /\ text_content = Some(LOG_TEXT)
    /\ \E n \in 1..MaxTotal :
          /\ response = ManyResponse(n)
          /\ extracted_data = Some(ManyCandidates(n))
    /\ idx = 0
    /\ ip_info = 0
    /\ processed_results = <<>>
    /\ results_final = Nothing
    /\ pending = "none"
    /\ progress = _report_progress(
                      _report_progress(
                         _report_progress(
                            _report_progress(<<>>, "Inicio", 0),
                            "Lectura", 5),
                         "Extraccion IA", 15),
                      "Procesando IPs", base_prog)
    /\ ops = <<"read_input_file", "extract_ip_data_with_gemini">>
    /\ handler_attached = TRUE
    /\ ret = NoReturn
    /\ front = NotReported
    /\ export_list = <<>>

NextProgress ==
    \/ ReportCandidate
    \/ Sleep
    \/ Enrich
    \/ Finally

SpecProgress == InitProgress /\ [][NextProgress]_vars

(***************************************************************************)
(* The two front ends: what each makes of the value process_ip_analysis    *)
(* ended with.                                                             *)
(***************************************************************************)
\* main_cli lines 99-113: None is a failure (exit status 1); anything else is asked for its
\* "analysis_results" with .get, which a list does not have (AttributeError, not caught);
\* an exception of the call is not caught either
main_cli(results_wrapper) ==
    IF results_wrapper.kind = "raised" THEN "raised"
    ELSE IF results_wrapper.kind = "None" THEN "analysis failed"
    ELSE IF results_wrapper.kind = "list" THEN "raised"
    ELSE IF results_wrapper.results = <<>> THEN "succeeded with zero results"
    ELSE "succeeded"

\* _analysis_task lines 632-658: successful only when the value is not None and holds the
\* keys "analysis_results" and "metadata" (the list [] holds neither); an exception is caught
_analysis_task(results_wrapper) ==
    IF results_wrapper.kind = "raised" THEN "analysis failed"
    ELSE IF results_wrapper.kind = "None" THEN "analysis failed"
    ELSE IF results_wrapper.kind = "list" THEN "analysis failed"
    ELSE IF results_wrapper.results = <<>> THEN "succeeded with zero results"
    ELSE "succeeded"

\* the front end that called process_ip_analysis handles what the call ended with
FrontEnd ==
    /\ pc = "done"
    /\ \E front_end \in {"main_cli", "_analysis_task"} :
          front' = [front_end |-> front_end,
                      state |-> IF front_end = "main_cli" THEN main_cli(ret)
                                ELSE _analysis_task(ret)]
    /\ pc' = "reported"
    /\ UNCHANGED <<gui, tz_calls, pytz, lookup_vars, gemini_key, ipinfo_token, file_exists, target_timezone,
                   text_content, response, extracted_data, idx, ip_info, processed_results,
                   results_final, pending, progress, ops, handler_attached, ret, export_list>>

\* the front end flattens the results of a successful run for its table or report
Export ==
    /\ pc = "reported"
    /\ front.state = "succeeded"
    /\ \E r \in {_prepare_export_data(ret.results, heap)} :
          /\ export_list' = r.export_list
          /\ heap' = r.heap
    /\ pc' = "exported"
    /\ UNCHANGED <<gui, tz_calls, front, pytz, ip_info_cache, token_missing_logged, critical_logs, calls, gemini_key,
                   ipinfo_token, file_exists, target_timezone, text_content, response,
                   extracted_data, idx, ip_info, processed_results, results_final, pending,
                   progress, ops, handler_attached, ret>>

(***************************************************************************)
(* Spec: one run of process_ip_analysis with any arguments, in a process   *)
(* with or without pytz, followed by the flattening of its results.        *)
(***************************************************************************)
Init ==
    /\ pytz \in BOOLEAN
    /\ gemini_key \in {None, "key"}
    /\ ipinfo_token \in {None, "tok"}
    /\ file_exists \in BOOLEAN
    /\ target_timezone \in RunZones
    /\ InitLookupVars
    /\ InitRunVars
    /\ tz_calls = <<>> /\ gui = GuiAtConstruction

Next ==
    \/ StartRun
    \/ Validate
    \/ Read
    \/ Extract
    \/ ReportCandidate
    \/ Sleep
    \/ Enrich
    \/ Finally
    \/ FrontEnd
    \/ Export

Spec == Init /\ [][Next]_vars

(***************************************************************************)
(* The desktop front end (ip_analyzer_gui.py): the Tk main loop with its   *)
(* timer queue, the analysis worker threads and the progress queue they    *)
(* share.  The main thread runs one callback at a time; a worker thread    *)
(* runs between any two steps of the main thread.  The window exists       *)
(* throughout.  Callbacks that touch only widgets left out of the state    *)
(* (status bar, result table, log pane) are left out.                      *)
(***************************************************************************)
MaxRequests == 2    \* most presses of the "Iniciar Análisis" button

\* how process_ip_analysis ends in the worker
WorkerOutcomes == {"results", "None", "raised"}

\* the events the core reports in a run that ends that way, cut down to two: the first
\* one, then the terminal one, or the one after reading when the run raises before any
\* terminal one
WorkerEvents(how) ==
    IF how = "results" THEN <<Event("Inicio", 0), Event("Completado", 100)>>
    ELSE IF how = "None" THEN <<Event("Inicio", 0), Event("Error", 100)>>
    ELSE <<Event("Inicio", 0), Event("Lectura", 5)>>

\* processing.py 174-177: what _report_progress puts on the queue is a dict
ProgressMessage(run, e) ==
    [type |-> "dict", run |-> run, step |-> e.step, percentage |-> e.percentage]

\* an entry of the Tk timer queue, as made by after(ms, callback, arg)
Timer(ms, callback, arg) == [ms |-> ms, callback |-> callback, arg |-> arg]

\* Tk runs due timers oldest first: an entry can run once no after(0, ...) entry scheduled
\* before it is waiting; an entry with a delay can be overtaken by a later after(0, ...)
Runnable(timers, i) == \A j \in 1..(i - 1) : timers[j].ms # 0

RemoveAt(s, i) == SubSeq(s, 1, i - 1) \o SubSeq(s, i + 1, Len(s))

\* lines 686-721
_start_analysis_thread ==
    /\ gui.main_pc = "mainloop"
    /\ gui.requests < MaxRequests
    /\ IF gui.is_processing
       THEN gui' = [gui EXCEPT !.requests = @ + 1]
       ELSE \E how \in WorkerOutcomes :
               gui' = [gui EXCEPT
                          !.requests = @ + 1,
                          !.progress_bar = 0,
                          !.workers = Append(@, [how |-> how, left |-> WorkerEvents(how), running |-> TRUE]),
                          !.timers = @ \o <<Timer(0, "_set_processing_state_task", TRUE),
                                            Timer(100, "_check_progress_queue", FALSE)>>]
    /\ UNCHANGED <<pytz, tz_calls, lookup_vars, run_vars>>

\* lines 474-475, as the callback the worker scheduled
_set_processing_state ==
    /\ gui.main_pc = "mainloop"
    /\ \E i \in 1..Len(gui.timers) :
          /\ Runnable(gui.timers, i)
          /\ gui.timers[i].callback = "_set_processing_state"
          /\ gui' = [gui EXCEPT !.timers = Append(RemoveAt(@, i),
                                     Timer(0, "_set_processing_state_task", gui.timers[i].arg))]
    /\ UNCHANGED <<pytz, tz_calls, lookup_vars, run_vars>>

\* lines 477-479
_set_processing_state_task ==
    /\ gui.main_pc = "mainloop"
    /\ \E i \in 1..Len(gui.timers) :
          /\ Runnable(gui.timers, i)
          /\ gui.timers[i].callback = "_set_processing_state_task"
          /\ gui' = [gui EXCEPT !.timers = RemoveAt(@, i),
                                !.is_processing = gui.timers[i].arg]
    /\ UNCHANGED <<pytz, tz_calls, lookup_vars, run_vars>>

\* line 601: isinstance(progress_val, (int, float))
IsNumber(progress_val) == progress_val.type \in {"int", "float"}

\* lines 598-603: the value of the bar after the messages were dequeued, oldest first
RECURSIVE BarAfter(_, _)
BarAfter(progress_bar, msgs) ==
    IF msgs = <<>> THEN progress_bar
    ELSE BarAfter(IF IsNumber(msgs[1]) THEN msgs[1].percentage ELSE progress_bar, Tail(msgs))

\* lines 593-605: the poller empties the progress queue
_check_progress_queue ==
    /\ gui.main_pc = "mainloop"
    /\ \E i \in 1..Len(gui.timers) :
          /\ Runnable(gui.timers, i)
          /\ gui.timers[i].callback = "_check_progress_queue"
          /\ gui' = [gui EXCEPT
                        !.timers = RemoveAt(@, i),
                        !.progress_queue = <<>>,
                        !.drained = gui.progress_queue,
                        !.progress_bar = BarAfter(@, gui.progress_queue),
                        !.stale = @ \/ \E k \in 1..Len(gui.progress_queue) :
                                           gui.progress_queue[k].run < Len(gui.workers),
                        !.main_pc = "poll_finally"]
    /\ UNCHANGED <<pytz, tz_calls, lookup_vars, run_vars>>

\* lines 620-626: the poller reschedules itself while processing, and stops otherwise
PollFinally ==
    /\ gui.main_pc = "poll_finally"
    /\ IF gui.is_processing
       THEN gui' = [gui EXCEPT !.timers = Append(@, Timer(150, "_check_progress_queue", FALSE)),
                               !.drained = <<>>,
                               !.main_pc = "mainloop"]
       ELSE gui' = [gui EXCEPT !.progress_bar = 100,
                               !.stopped_with = Len(gui.progress_queue),
                               !.drained = <<>>,
                               !.main_pc = "mainloop"]
    /\ UNCHANGED <<pytz, tz_calls, lookup_vars, run_vars>>

\* line 636 and processing.py 171-178: the worker reports its next event
WorkerReports ==
    /\ \E w \in 1..Len(gui.workers) :
          /\ gui.workers[w].running
          /\ gui.workers[w].left # <<>>
          /\ gui' = [gui EXCEPT
                        !.workers[w].left = Tail(@),
                        !.progress_queue = Append(@, ProgressMessage(w, gui.workers[w].left[1]))]
    /\ UNCHANGED <<pytz, tz_calls, lookup_vars, run_vars>>

\* the reset scheduled at the end of the try body only, so not when the call raises
WorkerFinally_no_reset_on_raise ==
    /\ \E w \in 1..Len(gui.workers) :
          /\ gui.workers[w].running
          /\ gui.workers[w].left = <<>>
          /\ gui' = [gui EXCEPT
                        !.workers[w].running = FALSE,
                        !.timers = IF gui.workers[w].how = "raised" THEN @
                                   ELSE Append(@, Timer(0, "_set_processing_state", FALSE))]
    /\ UNCHANGED <<pytz, tz_calls, lookup_vars, run_vars>>

\* lines 650-659: the finally clause of _analysis_task, however the call ended
WorkerFinally ==
    /\ \E w \in 1..Len(gui.workers) :
          /\ gui.workers[w].running
          /\ gui.workers[w].left = <<>>
          /\ gui' = [gui EXCEPT
                        !.workers[w].running = FALSE,
                        !.timers = Append(@, Timer(0, "_set_processing_state", FALSE))]
    /\ UNCHANGED <<pytz, tz_calls, lookup_vars, run_vars>>

InitGui ==
    /\ pytz = TRUE
    /\ InitLookupVars
    /\ InitNoArgs
    /\ InitRunVars
    /\ tz_calls = <<>>
    /\ gui = GuiAtConstruction

NextGui ==
    \/ _start_analysis_thread
    \/ _set_processing_state
    \/ _set_processing_state_task
    \/ _check_progress_queue
    \/ PollFinally
    \/ WorkerReports
    \/ WorkerFinally

SpecGui == InitGui /\ [][NextGui]_vars

\* the main loop runs every due callback and every thread gets to run; nothing makes the
\* user press the button
SpecGuiFair ==
    /\ SpecGui
    /\ WF_vars(_set_processing_state)
    /\ WF_vars(_set_processing_state_task)
    /\ WF_vars(_check_progress_queue)
    /\ WF_vars(PollFinally)
    /\ WF_vars(WorkerReports)
    /\ WF_vars(WorkerFinally)

(***************************************************************************)
(* Properties.                                                             *)
(***************************************************************************)
Finished == pc \in {"done", "reported", "exported"}

Called(op) == \E i \in 1..Len(ops) : ops[i] = op

Candidates == IF extracted_data = Nothing THEN <<>> ELSE extracted_data[1]

RequestsFor(ip_address) == {i \in 1..Len(calls) : calls[i].ip = ip_address /\ calls[i].net}

AllCallsWithToken == \A i \in 1..Len(calls) : ~Falsy(calls[i].token)

\* C1: in a sequence of get_ip_info calls that share one cache and all pass a non-empty token,
\* at most one network request is issued per IP string, whatever the first request's outcome,
\* and every later call for an IP returns the record of the first call for it: the same
\* object when the IP is valid, an equal record when it is not (such a record is not cached).
C1_OneRequestPerIp ==
    AllCallsWithToken =>
        /\ \A ip_address \in LookupIPs : Cardinality(RequestsFor(ip_address)) <= 1
        /\ \A i, j \in 1..Len(calls) :
              (i < j /\ calls[i].ip = calls[j].ip) =>
                  /\ heap[calls[j].ret] = heap[calls[i].ret]
                  /\ ~calls[j].net
                  /\ (is_valid_ip(calls[i].ip) => calls[j].ret = calls[i].ret /\ calls[j].hit)

\* a failed request for an IP followed by a second call for the same IP
C1_Witness ==
    /\ AllCallsWithToken
    /\ \E i, j \in 1..Len(calls) :
          /\ i < j
          /\ calls[i].ip = calls[j].ip
          /\ calls[i].net
          /\ heap[calls[i].ret].error = "Timeout IPinfo"
          /\ calls[j].hit

\* C2: once a record is cached under an IP, no step (a later get_ip_info call, the assembly of
\* the result records, the flattening of the report) changes the cache entry or any field of
\* the record, and a call that hits the cache returns that very record.
C2_CachedRecordFrozen ==
    [][/\ \A ip_address \in DOMAIN ip_info_cache :
             /\ ip_address \in DOMAIN ip_info_cache'
             /\ ip_info_cache'[ip_address] = ip_info_cache[ip_address]
             /\ heap'[ip_info_cache[ip_address]] = heap[ip_info_cache[ip_address]]
       /\ (calls' # calls /\ calls'[Len(calls')].hit) =>
             calls'[Len(calls')].ret = ip_info_cache[calls'[Len(calls')].ip]]_vars

\* a report flattened from results of which two share one cached error record
C2_Witness ==
    /\ pc = "exported"
    /\ \E i, j \in 1..Len(ret.results) :
          /\ i < j
          /\ ret.results[i].ip_info = ret.results[j].ip_info
          /\ heap[ret.results[i].ip_info].error = "Limite API Excedido"
          /\ export_list[j].ip_info_error = "Limite API Excedido"

ScopeTags == {"IP Privada", "IP Loopback", "IP Link-Local", "IP Multicast", "IP Reservada"}

\* C3: every get_ip_info call on a valid IP of a private, loopback, link-local, multicast or
\* reserved range, with any token (empty and missing included) and any cache, issues no
\* request and returns a record whose error names a scope kind.
C3_ScopedIpAnyToken ==
    \A i \in 1..Len(calls) :
        calls[i].ip \in ScopedIPs =>
            ~calls[i].net /\ heap[calls[i].ret].error \in ScopeTags

C5_NeverAborted ==
    (Finished /\ Candidates # <<>>) =>
        ret.kind = "dict" /\ Len(ret.results) = Len(Candidates)

PairOf(item) == <<Replace(Strip(item.ip.v), ",", "."), TsStrip(item.ts.v)>>

Accepted(item) ==
    /\ item.dict
    /\ item.ip.t = "str"
    /\ item.ts.t # "absent"
    /\ is_valid_ip(Replace(Strip(item.ip.v), ",", "."))

AcceptedIndexes == {k \in 1..Len(response.items) : Accepted(response.items[k])}

FirstIndex(pair) ==
    CHOOSE k \in AcceptedIndexes :
        /\ PairOf(response.items[k]) = pair
        /\ \A l \in AcceptedIndexes : PairOf(response.items[l]) = pair => k <= l

CandidatePair(c) == <<c.ip_address, c.timestamp_str>>

\* C6: for any JSON array the service returns, the list extract_ip_data_with_gemini returns
\* holds exactly one entry per distinct (cleaned ip, cleaned timestamp) pair of the accepted
\* elements, in order of first occurrence (so the same ip with two timestamps gives two
\* entries), and the results of a run that returns follow it pair by pair.
C6_OneEntryPerPair ==
    (response.kind = "array" /\ extracted_data # Nothing) =>
        /\ \A i, j \in 1..Len(Candidates) :
              i # j => CandidatePair(Candidates[i]) # CandidatePair(Candidates[j])
        /\ {CandidatePair(Candidates[i]) : i \in 1..Len(Candidates)}
              = {PairOf(response.items[k]) : k \in AcceptedIndexes}
        /\ \A i, j \in 1..Len(Candidates) :
              i < j => FirstIndex(CandidatePair(Candidates[i])) < FirstIndex(CandidatePair(Candidates[j]))
        /\ (Finished /\ ret.kind = "dict") =>
              [i \in 1..Len(ret.results) |->
                  <<ret.results[i].ip_address, ret.results[i].raw_timestamp_str>>]
              = [i \in 1..Len(Candidates) |-> CandidatePair(Candidates[i])]

\* an array of two elements that clean to the same pair, answered by one candidate
C6_Witness ==
    /\ response.kind = "array"
    /\ Len(response.items) = 2
    /\ response.items[1] # response.items[2]
    /\ Accepted(response.items[1])
    /\ Accepted(response.items[2])
    /\ PairOf(response.items[1]) = PairOf(response.items[2])
    /\ Len(Candidates) = 1

\* C7: when a credential is missing, process_ip_analysis returns None and neither the file
\* reader nor the extraction service nor an enrichment lookup is ever invoked.
C7_MissingCredentialFailsFast ==
    (Falsy(gemini_key) \/ Falsy(ipinfo_token)) =>
        /\ ops = <<>>
        /\ calls = <<>>
        /\ (Finished => ret.kind = "None")

\* a finished run that lacked only the enrichment token
C7_Witness ==
    /\ Finished
    /\ ~Falsy(gemini_key)
    /\ Falsy(ipinfo_token)
    /\ file_exists
    /\ ret.kind = "None"

IsBlank(content) == content # Nothing /\ Strip(content[1]) = <<>>

\* C8: when the input file exists and its content is empty or blank, the run returns a
\* structure with an empty result list and the run metadata (not None, not a bare value).
C8_EmptyFileReturnsStructure ==
    (Finished /\ IsBlank(text_content)) =>
        ret.kind = "dict" /\ ret.results = <<>> /\ ret.metadata # Nothing

\* C9: when extraction succeeds with an empty list, the run makes no enrichment lookup and
\* returns the {results, metadata} structure of a successful run, with results empty.
C9_EmptyExtractionReturnsStructure ==
    (Finished /\ extracted_data = Some(<<>>)) =>
        /\ calls = <<>>
        /\ ret.kind = "dict" /\ ret.results = <<>> /\ ret.metadata # Nothing

Fatal ==
    \/ Falsy(gemini_key)
    \/ Falsy(ipinfo_token)
    \/ ~file_exists
    \/ (Called("read_input_file") /\ text_content = Nothing)
    \/ (Called("extract_ip_data_with_gemini") /\ extracted_data = Nothing)

\* C10: process_ip_analysis returns None exactly when a credential is missing, the file does
\* not exist, the reader returned None or the extraction returned None; it never returns
\* None after validating, reading and extracting succeeded.
C10_NoneIffFatal ==
    Finished => (ret.kind = "None" <=> Fatal)

\* a run whose extraction failed
C10_Witness ==
    /\ Finished
    /\ Called("extract_ip_data_with_gemini")
    /\ extracted_data = Nothing
    /\ ret.kind = "None"

ZeroResultRun == pending = "return []"

\* C11: in both front ends, a run that ran correctly and found nothing (blank input file or
\* empty extraction) ends in the outcome "succeeded with zero results" and a fatal run ends in
\* the outcome "analysis failed"; a zero-result run is never reported as failed and never
\* makes the front end raise.
C11_FrontEndOutcomes ==
    (front.front_end # "none") =>
        /\ ZeroResultRun => front.state = "succeeded with zero results"
        /\ (ret.kind = "None" /\ Fatal) => front.state = "analysis failed"

\* C12: in every run, on every path (success, blank input, empty extraction, any fatal
\* failure, an aborted run), the percentages of the progress events put on the sink form a
\* non-decreasing sequence and each percentage lies in 0..100.
C12_ProgressMonotone ==
    /\ \A i \in 1..Len(progress) : progress[i].percentage \in 0..100
    /\ \A i, j \in 1..Len(progress) : i < j => progress[i].percentage <= progress[j].percentage

\* a finished run of two candidates: events at 0, 5, 15, 30, 65, 100 and the final 100
C12_Witness ==
    /\ Finished
    /\ ret.kind = "dict"
    /\ Len(progress) = 7
    /\ progress[5].percentage = 65
    /\ progress[7].step = "Completado"

\* position in ops of the k-th enrichment lookup of the run
LookupPosition(k) ==
    CHOOSE i \in 1..Len(ops) :
        /\ ops[i] = "get_ip_info"
        /\ Cardinality({j \in 1..i : ops[j] = "get_ip_info"}) = k

SleptBefore(k) == LookupPosition(k) > 1 /\ ops[LookupPosition(k) - 1] = "sleep"

\* C13: in the per-candidate loop the fixed delay is executed only before a lookup that
\* issues a network request: not for a candidate whose IP is already in the cache, nor for
\* one whose IP is classified by scope (private, loopback, link-local, multicast, reserved).
C13_DelayOnlyBeforeRequest ==
    \A k \in 1..Len(calls) : SleptBefore(k) => calls[k].net

\* the timestamp is not empty, blank or "N/A" and dateutil parses it
Parses(timestamp_str) ==
    /\ TsStrip(timestamp_str) \notin {TS_NA, TS_EMPTY}
    /\ DateutilParse(timestamp_str).ok

\* C14: for every raw timestamp that parses and every target zone string (known, unknown, or
\* one that makes the conversion fault), parse_and_convert_timezone returns the parsed UTC
\* instant; a failure while resolving or rendering the target zone changes only the display
\* string, never the instant.
C14_InstantKept ==
    \A i \in 1..Len(tz_calls) :
        Parses(tz_calls[i].timestamp_str) =>
            /\ ~tz_calls[i].raised
            /\ tz_calls[i].dt = Some(ToUtc(DateutilParse(tz_calls[i].timestamp_str)))

\* C15: in every result record, original_timestamp_utc is None exactly when the candidate's
\* raw timestamp was empty, blank, "N/A" or failed to parse; then original_timestamp_utc_str
\* is "N/A", and otherwise it is the rendering of the instant in UTC.
C15_UtcInstantNoneIffUnparsed ==
    \A i \in 1..Len(processed_results) :
        LET rec == processed_results[i]
        IN  /\ rec.original_timestamp_utc = Nothing <=> ~Parses(rec.raw_timestamp_str)
            /\ rec.original_timestamp_utc = Nothing => rec.original_timestamp_utc_str = Text("N/A")
            /\ rec.original_timestamp_utc # Nothing =>
                  rec.original_timestamp_utc_str =
                      Display("ok", rec.original_timestamp_utc[1] \div 24,
                              rec.original_timestamp_utc[1] % 24, "UTC")

\* a returned run with a record without instant and a record with one, shown in another zone
C15_Witness ==
    /\ Finished
    /\ ret.kind = "dict"
    /\ target_timezone = "Etc/GMT-5"
    /\ \E i, j \in 1..Len(ret.results) :
          /\ ret.results[i].original_timestamp_utc = Nothing
          /\ ret.results[i].raw_timestamp_str = TS_JUNK
          /\ ret.results[j].original_timestamp_utc # Nothing
          /\ ret.results[j].converted_timestamp # ret.results[j].original_timestamp_utc_str

\* the timestamp is "date time" with nothing after it (surrounding whitespace aside)
NoOffset(timestamp_str) == Kinds(TsStrip(timestamp_str)) = <<"date", "ws", "time">>

\* C16: a timestamp string without an explicit offset is anchored as UTC (never as the
\* machine's local time): normalizing it with target zone "UTC" yields a converted string
\* with the date and time of the input, in the form "YYYY-MM-DD HH:MM:SS UTC+0000".
C16_NaiveIsUtc ==
    \A i \in 1..Len(tz_calls) :
        (NoOffset(tz_calls[i].timestamp_str) /\ tz_calls[i].target_tz_str = "UTC") =>
            LET t == TsStrip(tz_calls[i].timestamp_str)
            IN  /\ ~tz_calls[i].raised
                /\ tz_calls[i].dt = Some(t[1].v * 24 + t[3].v)
                /\ tz_calls[i].conv = Display("ok", t[1].v, t[3].v, "UTC+0000")

\* a late-evening timestamp without offset normalized to "UTC"
C16_Witness ==
    \E i \in 1..Len(tz_calls) :
        /\ tz_calls[i].timestamp_str = <<Tok("date", 2), Sp, Tok("time", 22)>>
        /\ tz_calls[i].target_tz_str = "UTC"
        /\ tz_calls[i].conv.tag = "ok"

\* the fixed-offset zone k hours east of UTC (POSIX sign: "Etc/GMT-5" is UTC+05:00)
FixedOffsetZone(k) == IF k = 5 THEN "Etc/GMT-5" ELSE IF k = 0 - 5 THEN "Etc/GMT+5" ELSE "UTC"

ExtractReturned == pc = "extract_returned"

\* the text of the answer, once a "fence json" opening and a closing fence are taken off,
\* starts with '[' and ends with ']'
StartsAndEndsWithBracket(resp) ==
    /\ resp.kind \in {"array", "bad_json"}
    /\ resp.open # "fence"

FatalExtraction(api_key, resp) ==
    \/ Falsy(api_key)
    \/ resp.kind \in {"config_error", "blocked", "empty", "timeout", "exception"}
    \/ ~StartsAndEndsWithBracket(resp)
    \/ resp.kind = "bad_json"
    \/ resp.kind = "not_list"

\* C18: extract_ip_data_with_gemini returns None in each fatal case: missing key, client
\* configuration error, blocked or empty response, response that after fence stripping does
\* not start with '[' and end with ']', JSON parse failure, parsed value that is not an
\* array, service timeout, any unexpected exception.
C18_FatalExtractionReturnsNone ==
    (ExtractReturned /\ FatalExtraction(gemini_key, response)) => extracted_data = Nothing

\* a call answered with bracketed text that is not JSON, inside a json fence
C18_Witness ==
    /\ ExtractReturned
    /\ gemini_key = "key"
    /\ response.kind = "bad_json"
    /\ response.open = "fence json"
    /\ response.close = "fence"
    /\ extracted_data = Nothing

\* C19: when the service call succeeds and returns a well-formed JSON array from which no
\* element survives filtering (the array is empty, or every element is malformed or has an
\* invalid IP), extract_ip_data_with_gemini returns an empty list, not None.
C19_NothingSurvivesGivesEmptyList ==
    (/\ ExtractReturned
     /\ ~Falsy(gemini_key)
     /\ response.kind = "array"
     /\ StartsAndEndsWithBracket(response)
     /\ AcceptedIndexes = {}) =>
        extracted_data = Some(<<>>)

\* an array of a non-object and an object with an invalid IP, answered with the empty list
C19_Witness ==
    /\ ExtractReturned
    /\ gemini_key = "key"
    /\ response.kind = "array"
    /\ response.items = <<NotAnObject, ITEM_BAD_IP>>
    /\ extracted_data = Some(<<>>)

\* C20: run metadata (file hash, start time, duration, resolved input path, requested target
\* timezone, version tag) is produced for every run that terminates, both when the run ends
\* Completed and when it ends Failed.
C20_MetadataForEveryRun ==
    (Finished /\ ret.kind # "raised") =>
        /\ ret.metadata # Nothing
        /\ ret.metadata[1].target_timezone = target_timezone

\* the step label of the progress event that reports candidate k of n
CandidateStep(k, n) == "Procesando IP " \o ToString(k) \o "/" \o ToString(n)

Reported(k) ==
    \E i \in 1..Len(progress) : progress[i].step = CandidateStep(k, Len(Candidates))

InLoop == pc \in {"loop_report", "loop_sleep", "loop_lookup"}

\* C21: the progress event that reports candidate k of n is emitted only after candidate k's
\* enrichment lookup and timestamp normalization have finished; in particular no progress
\* event with percentage 100 is emitted while the last candidate's enrichment lookup is
\* still to be made.
C21_CandidateEventAfterCompletion ==
    /\ \A k \in 1..Len(Candidates) : Reported(k) => Len(processed_results) >= k
    /\ InLoop => \A i \in 1..Len(progress) : progress[i].percentage < 100

PhaseOf(op) ==
    CASE op = "read_input_file" -> 2
      [] op = "extract_ip_data_with_gemini" -> 3
      [] OTHER -> 4

\* C22: within a run the phases happen in the order Validating, Reading, Extracting,
\* EnrichingAndNormalizing: the file reader is called only after both credentials and the
\* file's existence were checked, the extraction service only after the reader returned
\* non-blank text, and enrichment lookups only after extraction returned a non-empty list;
\* once a phase fails, no operation of a later phase is performed.
C22_PhaseOrder ==
    /\ \A i, j \in 1..Len(ops) : i < j => PhaseOf(ops[i]) <= PhaseOf(ops[j])
    /\ Called("read_input_file") =>
          ValidationResult(gemini_key, ipinfo_token, file_exists) = "ok"
    /\ Called("extract_ip_data_with_gemini") =>
          /\ Called("read_input_file")
          /\ text_content # Nothing
          /\ ~IsBlank(text_content)
    /\ (Called("sleep") \/ Called("get_ip_info") \/ calls # <<>>) =>
          /\ Called("extract_ip_data_with_gemini")
          /\ extracted_data # Nothing
          /\ extracted_data # Some(<<>>)
    /\ Cardinality({i \in 1..Len(ops) : ops[i] = "read_input_file"}) <= 1
    /\ Cardinality({i \in 1..Len(ops) : ops[i] = "extract_ip_data_with_gemini"}) <= 1

\* a run that went through all four phases with two candidates
C22_Witness ==
    /\ Finished
    /\ ret.kind = "dict"
    /\ ops = <<"read_input_file", "extract_ip_data_with_gemini",
               "sleep", "get_ip_info", "sleep", "get_ip_info">>

\* C23: per-candidate progress percentages follow the stated allocation: the event for
\* candidate k of n (1 <= k <= n) carries 30 + floor(70 * k / n), so every per-candidate
\* percentage lies in 30..100 and the last one is exactly 100, while the setup and read
\* events carry at most 15 and the extraction event carries 15.
C23_ProportionalAllocation ==
    \A i \in 1..Len(progress) :
        /\ \A k \in 1..Len(Candidates) :
              progress[i].step = CandidateStep(k, Len(Candidates)) =>
                  /\ progress[i].percentage = 30 + (70 * k) \div Len(Candidates)
                  /\ progress[i].percentage \in 30..100
                  /\ k = Len(Candidates) => progress[i].percentage = 100
        /\ progress[i].step \in {"Inicio", "Lectura"} => progress[i].percentage <= 15
        /\ progress[i].step = "Extraccion IA" => progress[i].percentage = 15

\* what the claim expects of a timestamp that does not parse, by the kind of the failure
ExpectedParseText(timestamp_str) ==
    LET k == Kinds(TsStrip(timestamp_str))
    IN  IF k = <<"typeerr">> THEN Text("Error Tipo Parsing")
        ELSE IF k = <<"fault">> THEN Text("Error Interno (Parseo)")
        ELSE Text("Error Parsing")

\* C24: parse_and_convert_timezone classifies its outcomes as specified: empty, blank or
\* "N/A" input gives (None, "N/A"); a parse failure gives (None, "Error Parsing"); a
\* type-coercion failure gives (None, "Error Tipo Parsing"); any other fault while parsing
\* gives (None, "Error Interno (Parseo)"); and none of these cases raises.
C24_ParseOutcomes ==
    \A i \in 1..Len(tz_calls) :
        LET c == tz_calls[i]
        IN  /\ TsStrip(c.timestamp_str) \in {TS_NA, TS_EMPTY} =>
                  ~c.raised /\ c.dt = Nothing /\ c.conv = Text("N/A")
            /\ (TsStrip(c.timestamp_str) \notin {TS_NA, TS_EMPTY} /\ ~Parses(c.timestamp_str)) =>
                  ~c.raised /\ c.dt = Nothing /\ c.conv = ExpectedParseText(c.timestamp_str)

\* a call on a string that makes the parser raise TypeError, with an unknown target zone
C24_Witness ==
    \E i \in 1..Len(tz_calls) :
        /\ tz_calls[i].timestamp_str = <<Tok("typeerr", 0)>>
        /\ tz_calls[i].target_tz_str = "Nowhere/Zone"
        /\ tz_calls[i].conv = Text("Error Tipo Parsing")


\* a zone name of the form of an IANA key that the timezone library has no entry for
UnknownZone(target_tz_str) == target_tz_str \notin KnownZones \cup FaultZones \cup {"UTC"}

\* C25: for a parseable timestamp and a target zone name that the timezone library does
\* not know, parse_and_convert_timezone returns the UTC instant together with the display
\* string "Error TZ Interno" (and not any other error string).
C25_UnknownZoneGivesErrorTzInterno ==
    \A i \in 1..Len(tz_calls) :
        LET c == tz_calls[i]
        IN  (Parses(c.timestamp_str) /\ UnknownZone(c.target_tz_str)) =>
                /\ ~c.raised
                /\ c.dt = Some(ToUtc(DateutilParse(c.timestamp_str)))
                /\ c.conv = Text("Error TZ Interno")


\* the spellings "UTC+N" / "UTC-N" of the fixed-offset notation, N of one or two digits
FixedOffsetName(sign, n) ==
    {UTC_NAME \o <<sign>> \o DecChars(n)}
    \cup (IF n < 10 THEN {UTC_NAME \o <<sign, "0", ToString(n)>>} ELSE {})

\* C26: the caller-facing fixed-offset notation is mapped with inverted sign: "UTC+N"
\* resolves to the backend zone "Etc/GMT-N", "UTC-N" to "Etc/GMT+N", "UTC" to "UTC", and
\* any other name is passed through unchanged, so a timestamp displayed for "UTC+N" (N one
\* of the offsets the zone selector offers) shows the UTC time plus N hours.
C26_InvertedSignMapping ==
    \A i \in 1..Len(tz_calls) :
        LET c == tz_calls[i]
        IN  c.mapped =>
              /\ \A n \in 0..15 :
                    /\ c.display_tz \in FixedOffsetName("+", n) =>
                           c.target_tz_str = "Etc/GMT-" \o ToString(n)
                    /\ c.display_tz \in FixedOffsetName("-", n) =>
                           c.target_tz_str = "Etc/GMT+" \o ToString(n)
              /\ c.display_tz = UTC_NAME => c.target_tz_str = "UTC"
              /\ (/\ c.display_tz # UTC_NAME
                  /\ \A n \in 0..15 : c.display_tz \notin FixedOffsetName("+", n) \cup FixedOffsetName("-", n))
                 => c.target_tz_str = Join(c.display_tz)
              /\ \A n \in 1..14 :
                    (c.display_tz = UTC_NAME \o <<"+">> \o DecChars(n) /\ Parses(c.timestamp_str)) =>
                        /\ ~c.raised
                        /\ c.conv.tag = "ok"
                        /\ 24 * c.conv.d + c.conv.h = c.dt[1] + n

\* a timestamp of 22:00 UTC shown for "UTC+14" on the next day at 12:00
C26_Witness ==
    \E i \in 1..Len(tz_calls) :
        /\ tz_calls[i].mapped
        /\ tz_calls[i].display_tz = UTC_NAME \o <<"+", "1", "4">>
        /\ tz_calls[i].target_tz_str = "Etc/GMT-14"
        /\ tz_calls[i].timestamp_str = <<Tok("date", 1), Sp, Tok("time", 22), Sp, Tok("utc", 0)>>
        /\ tz_calls[i].conv = Display("ok", 2, 12, "+14+1400")


\* the element has the shape the claim accepts: an object whose ip_address is a string and
\* whose timestamp_str is a string or absent
AcceptedShape(item) == item.dict /\ item.ip.t = "str" /\ item.ts.t \in {"str", "absent"}

\* the candidate an element of accepted shape stands for, an absent timestamp_str as ""
CandidateOf(item) ==
    [ip_address |-> Replace(Strip(item.ip.v), ",", "."),
     timestamp_str |-> IF item.ts.t = "absent" THEN TS_EMPTY ELSE TsStrip(item.ts.v)]

\* C27: in extraction post-processing an array element is accepted exactly when ip_address
\* is a string and timestamp_str is either a string or absent (an absent timestamp_str
\* defaulting to the empty string); every other element is dropped, and dropping an element
\* never makes the extraction fail.
C27_AcceptedShape ==
    (ExtractReturned /\ ~FatalExtraction(gemini_key, response)) =>
        /\ extracted_data # Nothing
        /\ {extracted_data[1][k] : k \in 1..Len(extracted_data[1])}
             = {CandidateOf(response.items[j]) :
                  j \in {jj \in 1..Len(response.items) :
                           /\ AcceptedShape(response.items[jj])
                           /\ is_valid_ip(CandidateOf(response.items[jj]).ip_address)}}


\* C28: every candidate in the list returned by extract_ip_data_with_gemini has an
\* ip_address that passes is_valid_ip and that equals the service's value after trimming
\* and replacing commas by dots; an element whose cleaned IP is invalid is dropped without
\* failing the extraction.
C28_ReturnedIpsValidAndCleaned ==
    (ExtractReturned /\ extracted_data # Nothing) =>
        /\ \A k \in 1..Len(extracted_data[1]) :
              /\ is_valid_ip(extracted_data[1][k].ip_address)
              /\ \E j \in 1..Len(response.items) :
                    /\ response.items[j].ip.t = "str"
                    /\ extracted_data[1][k].ip_address
                         = Replace(Strip(response.items[j].ip.v), ",", ".")
        /\ \A j \in 1..Len(response.items) :
              (/\ response.items[j].ip.t = "str"
               /\ ~is_valid_ip(Replace(Strip(response.items[j].ip.v), ",", ".")))
              => \A k \in 1..Len(extracted_data[1]) :
                    extracted_data[1][k].ip_address # Replace(Strip(response.items[j].ip.v), ",", ".")

\* an answer whose first element has an invalid address and whose second needs cleaning:
\* the call returns the second alone, cleaned
C28_Witness ==
    /\ ExtractReturned
    /\ response.items = <<ITEM_BAD_IP, ITEM_A_DIRTY>>
    /\ extracted_data = Some(<<[ip_address |-> IP_PUBLIC, timestamp_str |-> TS_UTC]>>)


\* C29: get_ip_info on a syntactically invalid IP returns a record tagged with the
\* invalid-format error, issues no network request, and leaves the cache unchanged, so a
\* later call with the same string is validated again.
C29_InvalidIpNotCached ==
    [][(Len(calls') = Len(calls) + 1 /\ ~is_valid_ip(calls'[Len(calls')].ip)) =>
          LET c == calls'[Len(calls')]
          IN  /\ heap'[c.ret].error = "IP Invalida (Formato)"
              /\ ~c.net
              /\ ip_info_cache' = ip_info_cache
              /\ ~c.hit
              /\ c.ret \notin {calls[i].ret : i \in 1..Len(calls)}]_vars

\* two calls with the same invalid string: each returned a record of its own with the tag
C29_Witness ==
    /\ Len(calls) = 2
    /\ calls[1].ip = IP_BADOCTET /\ calls[2].ip = IP_BADOCTET
    /\ calls[1].ret # calls[2].ret
    /\ heap[calls[2].ret].error = "IP Invalida (Formato)"
    /\ ip_info_cache = EmptyCache


\* C30: get_ip_info called without a token returns a record with error "Token Faltante"
\* before any network request is made, and over any number of such calls within one
\* process the missing-token condition is logged at most once.
C30_TokenFaltanteOnEveryCall ==
    /\ \A i \in 1..Len(calls) :
          calls[i].token \in {None, ""} =>
              heap[calls[i].ret].error = "Token Faltante" /\ ~calls[i].net
    /\ critical_logs <= 1

\* C30, amended: get_ip_info called without a token issues no network request; when the
\* IP is valid and not in the cache it returns a record with error "Token IPinfo Faltante";
\* and over any number of such calls the missing-token condition is logged at most once.
C30_MissingTokenOnUncachedValidIp ==
    /\ \A i \in 1..Len(calls) :
          calls[i].token \in {None, ""} =>
              /\ ~calls[i].net
              /\ (is_valid_ip(calls[i].ip) /\ ~calls[i].hit) =>
                     heap[calls[i].ret].error = "Token IPinfo Faltante"
    /\ critical_logs <= 1

\* two calls without a token, for two public addresses: two tagged records, one log line
C30_Witness ==
    /\ Len(calls) = 2
    /\ calls[1].ip = IP_PUBLIC /\ calls[1].token = ""
    /\ calls[2].ip = IP_PUBLIC2 /\ calls[2].token = None
    /\ heap[calls[1].ret].error = "Token IPinfo Faltante"
    /\ heap[calls[2].ret].error = "Token IPinfo Faltante"
    /\ critical_logs = 1


\* the failure class of a request's outcome, among the eight the claim lists; a request
\* exception of no listed class is "network", a successful lookup "none"
FailureClass(outcome) ==
    CASE outcome.kind = "timeout" -> "timeout"
      [] outcome.kind = "http" /\ outcome.status \in {401, 403} -> "auth"
      [] outcome.kind = "http" /\ outcome.status = 404 -> "not found"
      [] outcome.kind = "http" /\ outcome.status = 429 -> "rate limit"
      [] outcome.kind = "http" /\ outcome.status \notin {401, 403, 404, 429} -> "other status"
      [] outcome.kind = "conn" -> "connection"
      [] outcome.kind \in {"badjson_req", "badjson_json"} -> "malformed body"
      [] outcome.kind = "internal" -> "internal"
      [] outcome.kind = "reqexc" -> "network"
      [] OTHER -> "none"

ListedFailure(c) == c.net /\ FailureClass(c.outcome) \notin {"network", "none"}

\* C31: each network failure class of get_ip_info (timeout, HTTP 401/403, HTTP 404, HTTP
\* 429, other HTTP status, connection error, malformed response body, unexpected internal
\* fault) yields a record whose isp, city, region, country and hostname are all "N/A" and
\* whose error tag is different from the tag of every other class; error is None only when
\* the lookup fully succeeded.
C31_FailureClassesTagged ==
    /\ \A i \in 1..Len(calls) :
          /\ ListedFailure(calls[i]) =>
                LET rec == heap[calls[i].ret]
                IN  /\ rec.isp = "N/A" /\ rec.city = "N/A" /\ rec.region = "N/A"
                    /\ rec.country = "N/A" /\ rec.hostname = "N/A"
                    /\ rec.error # None
          /\ (~calls[i].hit /\ heap[calls[i].ret].error = None) =>
                calls[i].net /\ calls[i].outcome.kind = "ok"
    /\ \A i, j \in 1..Len(calls) :
          (/\ ListedFailure(calls[i]) /\ ListedFailure(calls[j])
           /\ FailureClass(calls[i].outcome) # FailureClass(calls[j].outcome))
          => heap[calls[i].ret].error # heap[calls[j].ret].error

\* a connection error for one address and a timeout for another: two different tags
C31_Witness ==
    /\ Len(calls) = 2
    /\ calls[1].net /\ calls[1].outcome.kind = "conn"
    /\ calls[2].net /\ calls[2].outcome.kind = "timeout"
    /\ heap[calls[1].ret].error = "Error de Conexion"
    /\ heap[calls[2].ret].error = "Timeout IPinfo"


\* C32: the scope label written into a fast-path record is the kind of range the address
\* belongs to: a loopback address is labelled Loopback, a link-local address Link-Local, a
\* multicast address Multicast, a reserved address Reserved and a private address Private,
\* so each of the five labels is produced for the addresses of its own kind.
C32_LabelOfOwnKind ==
    \A i \in 1..Len(calls) :
        (calls[i].ip \in ScopedIPs /\ calls[i].token = "tok" /\ ~calls[i].hit) =>
            LET rec == heap[calls[i].ret]
            IN  /\ calls[i].ip = IP_LOOPBACK => rec.error = "IP Loopback" /\ rec.isp = "Red Loopback"
                /\ calls[i].ip = IP_LINKLOCAL => rec.error = "IP Link-Local" /\ rec.isp = "Red Link-Local"
                /\ calls[i].ip = IP_MULTICAST => rec.error = "IP Multicast" /\ rec.isp = "Red Multicast"
                /\ calls[i].ip = IP_RESERVED => rec.error = "IP Reservada" /\ rec.isp = "Red Reservada"
                /\ calls[i].ip = IP_PRIVATE => rec.error = "IP Privada" /\ rec.isp = "Red Privada"


\* the organization has the form "AS<digits> <name>": "AS", digits up to position k,
\* whitespace and a name
HasAsForm(org, k) ==
    /\ k >= 3 /\ k + 2 <= Len(org)
    /\ org[1] = "A" /\ org[2] = "S"
    /\ \A j \in 3..k : IsDigit(org[j])
    /\ IsSpace(org[k + 1])
    /\ Strip(SubSeq(org, k + 1, Len(org))) # <<>>

\* C33: on a successful lookup the isp field is derived from the provider's organization
\* field: a value of the form "AS<digits> <name>" becomes "<name>", any other non-empty
\* value is kept verbatim, and when the organization field is absent or empty the
\* provider's separate isp field is used, with "N/A" when both are missing.
C33_IspFromOrganization ==
    \A i \in 1..Len(calls) :
        (calls[i].net /\ calls[i].outcome.kind = "ok") =>
            LET data == calls[i].outcome.data
                isp == heap[calls[i].ret].isp
            IN  /\ \A k \in 1..Len(data.org) :
                      HasAsForm(data.org, k) =>
                          isp = Join(Strip(SubSeq(data.org, k + 1, Len(data.org))))
                /\ (data.org # <<>> /\ \A k \in 1..Len(data.org) : ~HasAsForm(data.org, k)) =>
                      isp = Join(data.org)
                /\ (data.org = <<>> /\ data.isp \notin {Absent, ""}) => isp = data.isp
                /\ (data.org = <<>> /\ data.isp = Absent) => isp = "N/A"

\* what is left of the organization: the text after "AS", digits and whitespace, in either
\* letter case, stripped; the organization itself when it has no such prefix
OrgName(org) ==
    IF \E k \in 3..Len(org) :
          /\ org[1] \in {"A", "a"} /\ org[2] \in {"S", "s"}
          /\ \A j \in 3..k : IsDigit(org[j])
          /\ k < Len(org) /\ IsSpace(org[k + 1])
    THEN LET k == CHOOSE kk \in 3..Len(org) :
                     /\ \A j \in 3..kk : IsDigit(org[j])
                     /\ IsSpace(org[kk + 1])
         IN  Join(Strip(SubSeq(org, k + 1, Len(org))))
    ELSE Join(org)

\* C33, amended: a string that starts, in either letter case, with "AS", digits and
\* whitespace becomes the text after that whitespace, stripped; any other non-empty string
\* is kept verbatim; when that leaves the empty string or "N/A" the provider's separate isp
\* field is used, with "N/A" when that field is missing or empty.
C33_IspFromOrganizationAnyCase ==
    \A i \in 1..Len(calls) :
        (calls[i].net /\ calls[i].outcome.kind = "ok") =>
            LET data == calls[i].outcome.data
                isp == heap[calls[i].ret].isp
            IN  IF OrgName(data.org) \notin {"", "N/A"} THEN isp = OrgName(data.org)
                ELSE IF data.isp \in {Absent, ""} THEN isp = "N/A"
                ELSE isp = data.isp

\* the organization "as15 Goo" gives the isp "Goo", and "AS15 " the separate isp field
C33_Witness ==
    /\ Len(calls) = 2
    /\ calls[1].net /\ calls[1].outcome.kind = "ok"
    /\ calls[1].outcome.data.org = <<"a", "s", "1", "5", " ", "G", "o", "o">>
    /\ heap[calls[1].ret].isp = "Goo"
    /\ calls[2].net /\ calls[2].outcome.kind = "ok"
    /\ calls[2].outcome.data.org = <<"A", "S", "1", "5", " ">>
    /\ heap[calls[2].ret].isp = "Telco"


\* the positions of the terminal events among the progress events of the run
TerminalEvents == {i \in 1..Len(progress) : progress[i].step \in {"Completado", "Error"}}

\* C36: every run emits exactly one terminal progress event, labelled "Completado" when the
\* run ends Completed and "Error" when it ends Failed, with percentage 100, and that event
\* is the last progress event of the run.
C36_OneTerminalEvent ==
    Finished =>
        /\ TerminalEvents = {Len(progress)}
        /\ progress # <<>>
        /\ progress[Len(progress)].percentage = 100
        /\ ret.kind \in {"dict", "list"} => progress[Len(progress)].step = "Completado"
        /\ ret.kind \in {"None", "raised"} => progress[Len(progress)].step = "Error"


\* C37: whatever path process_ip_analysis takes (success, empty input, any fatal return, or
\* an exception inside the run), a log handler passed by the caller is attached to the
\* module logger during the run and is no longer attached when the call returns.
C37_HandlerAttachedOnlyDuringRun ==
    /\ (pc # "idle" /\ ~Finished) => handler_attached
    /\ Finished => ~handler_attached

\* a run that ended by an exception, with the handler removed
C37_Witness == Finished /\ ret.kind = "raised" /\ ~handler_attached

\* the worker threads that have been started and have not left _analysis_task
RunningWorkers == {w \in 1..Len(gui.workers) : gui.workers[w].running}

\* C34: the GUI never runs two analysis workers at once: whatever the interleaving of start
\* requests, scheduled callbacks and worker completion, _start_analysis_thread starts no
\* second worker thread while an earlier one is still running.
C34_OneWorkerAtATime == Cardinality(RunningWorkers) <= 1

\* C35: every progress message that the core puts on the progress queue and the GUI poller
\* dequeues sets the progress bar to that message's percentage: once a poll has dequeued
\* its messages, the bar shows the percentage of the last of them.
C35_BarFollowsPercentages ==
    (gui.main_pc = "poll_finally" /\ gui.drained # <<>>) =>
        gui.progress_bar = gui.drained[Len(gui.drained)].percentage

\* C38: whatever the interleaving of the worker thread and the poller, the progress queue
\* is empty when the poller stops rescheduling itself (it has seen is_processing false), so
\* that no message of one run is dequeued during a later run.
C38_QueueDrainedWhenPollerStops == gui.stopped_with <= 0 /\ ~gui.stale

\* the GUI is idle: no worker runs, the flag is down, no change of the flag is scheduled
\* and the main loop is free, so that _start_analysis_thread would start an analysis
GuiIdle ==
    /\ RunningWorkers = {}
    /\ ~gui.is_processing
    /\ gui.main_pc = "mainloop"
    /\ \A i \in 1..Len(gui.timers) :
          gui.timers[i].callback \notin {"_set_processing_state", "_set_processing_state_task"}

\* C39: every started analysis worker eventually leaves the GUI idle again: whether
\* process_ip_analysis returns results, returns None or raises, the worker schedules the
\* reset of the processing state, is_processing becomes false and a new analysis can be
\* started, provided the scheduled callbacks and the threads are eventually run.
C39_WorkerLeavesGuiIdle == (RunningWorkers # {}) ~> GuiIdle

\* the GUI idle again after a worker whose call raised
C39_Witness ==
    /\ GuiIdle
    /\ \E w \in 1..Len(gui.workers) : gui.workers[w].how = "raised"

====
